---- MODULE Spec2Model ----
(***************************************************************************)
(* Request orchestration and caching layer of data-from-anywhere-26        *)
(* (src/unnamed/part_004): TTL caches, request deduplication, the          *)
(* resilient fetcher and the observation-stations orchestrator.            *)
(*                                                                         *)
(* Scheduling follows the browser event loop.  A macrotask (a DOM event, a *)
(* network response, the clock moving on) is taken only when no            *)
(* continuation is queued; queued continuations (microtasks) run one at a  *)
(* time, each from its await to the next one: in any order in Spec, first  *)
(* in, first out in SpecRun.                                               *)
(*                                                                         *)
(*   Spec       the request layer alone, under direct callers              *)
(*   SpecCache  one TTL cache alone                                        *)
(*   SpecRun    createObservationStationsLayer under stationary events     *)
(*   SpecProps  one station feature through its branch of the fan-out     *)
(*   SpecIcons  the icon probes alone, under direct callers                *)
(*   SpecTtl    the steps that store a cache entry, each on its own        *)
(*   SpecMain   one branch of the fan-out of src/src/main.ts                *)
(*   SpecErrors isNotFoundError on its own                                  *)
(*   SpecHeap   cached responses and the clones made of them             *)
(*   SpecLive   the orchestrator and its icon probes, under fairness       *)
(*   SpecClick  the arcgisViewClick listener and the forecast layer        *)
(***************************************************************************)
EXTENDS Integers, Sequences, FiniteSets, TLC

\* ---------------------------------------------------------------- bounds
\* Number of clock steps a behaviour may take.
MaxTicks == 3
\* Number of concurrent callers of the request functions in Spec.
MaxCallers == 3
\* Number of set operations a behaviour of SpecCache may perform.
MaxSets == 2
\* Number of calls of createObservationStationsLayer that get past the key
\* guard in a behaviour of SpecRun.
MaxRuns == 3
\* Number of properties of an upstream properties object (SpecProps).
MaxEntries == 2

\* ------------------------------------------------------ program constants
failedRequestCacheTimeToLive == 30 * 1000
forecastCacheTimeToLive == 5 * 60 * 1000
iconCacheTimeToLive == 30 * 60 * 1000
observationsCacheTimeToLive == 2 * 60 * 1000
requestTimeout == 8 * 1000
pointsStationsCacheTimeToLive == 10 * 60 * 1000

\* One step of the clock of Spec and SpecRun, in milliseconds: half the
\* failed-request TTL, so that an instant inside the window, the expiry
\* instant itself and instants after it are all reached.
TickMs == failedRequestCacheTimeToLive \div 2
\* The clock moves by one step, or by the shortest data TTL at once.
TickSteps == {TickMs, observationsCacheTimeToLive}

\* ------------------------------------------------------------- JS values
Null == "null"
True == "true"
False == "false"
\* Shapes of a successful response: a complete document, or a document
\* without the members the callers read through optional chaining.
Responses == {"full", "bare"}
\* How the underlying request settles: a response, a 404, or any other
\* error (network failure, timeout).
Failures == {"notFound", "error"}
Outcomes == Responses \cup Failures

\* The four data request functions and their cache keys "<class>:<id>".
Classes == {"points", "stations", "observations", "forecast"}
CacheKey(cls, id) == <<cls, id>>

\* -------------------------------------------------------------- variables
VARIABLES
    state,      \* the module-level `state` object
    now,        \* Date.now()
    net,        \* pending underlying request() calls: promise -> cache key
    callers,    \* callers of the data request functions (Spec)
    cache,      \* one cache Map (SpecCache)
    sets,       \* number of sets performed (SpecCache)
    ticks,      \* number of clock steps taken (SpecCache)
    lastGet,    \* what the last getCachedValue since the last set returned
    stored,     \* per key, the last setCachedValue: value, time and TTL
    runs,       \* the calls of createObservationStationsLayer, in start order
    mapLayers,  \* viewElement.map.layers
    blobUrls,   \* object URLs created and not revoked: URL -> the blob's features
    lastEventKey, \* normalized center key of the latest stationary event
    merge       \* one feature of a station list through its branch
                \* (SpecProps, SpecMain), or one error through
                \* isNotFoundError (SpecErrors)

cacheVars == <<cache, sets, ticks, lastGet, stored>>
runVars == <<runs, mapLayers, blobUrls, lastEventKey>>
propVars == <<merge>>
vars == <<state, now, net, callers, cacheVars, runVars, propVars>>

\* ------------------------------------------------------------ Map helpers
MapDelete(m, k) == [x \in (DOMAIN m) \ {k} |-> m[x]]
MapSet(m, k, v) == [x \in (DOMAIN m) \cup {k} |-> IF x = k THEN v ELSE m[x]]

\* ---------------------------------------------------------------- caches
\* Mutation: the expiry instant itself still counts as live.
getCachedValueAtLate(c, key, t) ==
    IF key \notin DOMAIN c
    THEN [value |-> Null, cache |-> c]
    ELSE IF t > c[key].expiresAt
         THEN [value |-> Null, cache |-> MapDelete(c, key)]
         ELSE [value |-> c[key].value, cache |-> c]

\* Mutation: an expired entry is reported absent and left in the map.
getCachedValueAtKeeps(c, key, t) ==
    IF key \notin DOMAIN c
    THEN [value |-> Null, cache |-> c]
    ELSE IF t >= c[key].expiresAt
         THEN [value |-> Null, cache |-> c]
         ELSE [value |-> c[key].value, cache |-> c]

\* getCachedValue(cache, key): the value returned and the cache afterwards.
getCachedValueAt(c, key, t) ==
    IF key \notin DOMAIN c
    THEN [value |-> Null, cache |-> c]
    ELSE IF t >= c[key].expiresAt
         THEN [value |-> Null, cache |-> MapDelete(c, key)]
         ELSE [value |-> c[key].value, cache |-> c]

getCachedValue(c, key) == getCachedValueAt(c, key, now)

\* setCachedValue(cache, key, value, ttlMs): the cache afterwards.
setCachedValueAt(c, key, value, ttlMs, t) ==
    MapSet(c, key, [value |-> value, expiresAt |-> t + ttlMs])

setCachedValue(c, key, value, ttlMs) == setCachedValueAt(c, key, value, ttlMs, now)

\* The cache and the TTL each data request function uses.
CacheOf(cls) ==
    CASE cls = "points" -> "pointsCache"
      [] cls = "stations" -> "observationStationsCache"
      [] cls = "observations" -> "latestObservationsCache"
      [] cls = "forecast" -> "forecastCache"

\* Mutation: every class is stored with the TTL of points and stations.
TtlOfUniform(cls) == pointsStationsCacheTimeToLive

TtlOf(cls) ==
    CASE cls = "points" -> pointsStationsCacheTimeToLive
      [] cls = "stations" -> pointsStationsCacheTimeToLive
      [] cls = "observations" -> observationsCacheTimeToLive
      [] cls = "forecast" -> forecastCacheTimeToLive

\* --------------------------------------------------------------- promises
\* Promise identities.  A pending executeRequest call owns one; callers that
\* await it hold the same identity.  NoPromise: no promise registered (the
\* Map lookup is undefined), or a promise already resolved to null.
MaxPromises == 8
PromiseIds == 1..MaxPromises
NoPromise == 0

FreshPromise(nt, held) ==
    LET free == PromiseIds \ ((DOMAIN nt) \cup held)
    IN CHOOSE p \in free : \A q \in free : p <= q

\* ---------------------------------------------------------- request layer
\* Mutation: the failed-request check is skipped.
recentlyFailedIgnored(st, cacheKey) == FALSE

\* requestWithDedupe, the failed-request check: is a live marker present?
\* (the read evicts an expired marker)
recentlyFailed(st, cacheKey) ==
    getCachedValue(st.failedRequestCache, cacheKey).value = True

\* Mutation: the in-flight lookup finds nothing.
inFlightLookupIgnored(st, cacheKey) == NoPromise

\* requestWithDedupe, the in-flight lookup: the registered promise, if any.
inFlightLookup(st, cacheKey) ==
    IF cacheKey \in DOMAIN st.inFlightRequests
    THEN st.inFlightRequests[cacheKey]
    ELSE NoPromise

\* executeRequest up to its await: the underlying request is issued.
executeRequestStart(nt, held, cacheKey) ==
    LET p == FreshPromise(nt, held)
    IN [net |-> MapSet(nt, p, cacheKey), promise |-> p]

\* executeRequest, catch block: which failures leave a failed-request marker.
recordsFailure(outcome) == outcome \in Failures

\* Mutation: no cleanup of the in-flight registration.
executeRequestFinallyMissing(st, cacheKey) == st

\* executeRequest, finally block.
executeRequestFinally(st, cacheKey) ==
    [st EXCEPT !.inFlightRequests = MapDelete(@, cacheKey)]

\* Mutation: a failed call returns from its catch block without cleanup.
executeRequestSettleLeaky(st, cacheKey, outcome) ==
    IF outcome \notin Failures
    THEN [state |-> executeRequestFinally(
                        [st EXCEPT !.failedRequestCache =
                             MapDelete(@, cacheKey)], cacheKey),
          result |-> outcome]
    ELSE [state |-> [st EXCEPT !.failedRequestCache =
                         setCachedValue(@, cacheKey, True,
                                        failedRequestCacheTimeToLive)],
          result |-> Null]

\* executeRequest after its await: the state afterwards and the value the
\* promise resolves to.
executeRequestSettle(st, cacheKey, outcome) ==
    LET st1 == IF outcome \notin Failures
               THEN [st EXCEPT !.failedRequestCache = MapDelete(@, cacheKey)]
               ELSE IF recordsFailure(outcome)
                    THEN [st EXCEPT !.failedRequestCache =
                              setCachedValue(@, cacheKey, True,
                                             failedRequestCacheTimeToLive)]
                    ELSE st
    IN [state |-> executeRequestFinally(st1, cacheKey),
        result |-> IF outcome \notin Failures THEN outcome ELSE Null]

\* requestWithDedupe(cacheKey, url): the state and the network afterwards,
\* and the promise returned (NoPromise: it resolves to null at once).
requestWithDedupe(st, nt, held, cacheKey) ==
    LET st1 == [st EXCEPT !.failedRequestCache =
                    getCachedValue(@, cacheKey).cache]
    IN IF recentlyFailed(st, cacheKey)
       THEN [state |-> st1, net |-> nt, promise |-> NoPromise]
       ELSE IF inFlightLookup(st1, cacheKey) # NoPromise
            THEN [state |-> st1, net |-> nt,
                  promise |-> inFlightLookup(st1, cacheKey)]
            ELSE LET ex == executeRequestStart(nt, held, cacheKey)
                 IN [state |-> [st1 EXCEPT !.inFlightRequests =
                                    MapSet(@, cacheKey, ex.promise)],
                     net |-> ex.net, promise |-> ex.promise]

\* One invocation of a data request function (requestPoints,
\* requestObservationStations, requestLatestObservations,
\* requestForecastByUrl).
\*   st = "idle"       not running
\*        "await"      suspended at `await requestWithDedupe(...)`, promise p pending
\*        "resumable"  that promise has resolved to res; the continuation is queued
\*        "returned"   the function has returned res
IdleTask == [st |-> "idle", cls |-> "points", id |-> "", p |-> NoPromise, res |-> Null]

\* Mutation: the cache is not consulted before the request.
requestDataCallUncached(st, nt, held, cls, id) ==
    LET d == requestWithDedupe(st, nt, held, CacheKey(cls, id))
    IN [state |-> d.state, net |-> d.net,
        task |-> [st |-> IF d.promise = NoPromise
                         THEN "resumable" ELSE "await",
                  cls |-> cls, id |-> id,
                  p |-> d.promise, res |-> Null]]

\* A data request function from its call to its first await (or return).
requestDataCall(st, nt, held, cls, id) ==
    LET key == CacheKey(cls, id)
        got == getCachedValue(st[CacheOf(cls)], key)
        st1 == [st EXCEPT ![CacheOf(cls)] = got.cache]
    IN IF got.value # Null
       THEN [state |-> st1, net |-> nt,
             task |-> [st |-> "returned", cls |-> cls, id |-> id,
                       p |-> NoPromise, res |-> got.value]]
       ELSE LET d == requestWithDedupe(st1, nt, held, key)
            IN [state |-> d.state, net |-> d.net,
                task |-> [st |-> IF d.promise = NoPromise
                                 THEN "resumable" ELSE "await",
                          cls |-> cls, id |-> id,
                          p |-> d.promise, res |-> Null]]

\* Mutation: whatever the request returned is cached, null included.
requestDataResumeStoresNull(st, task) ==
    [state |-> [st EXCEPT ![CacheOf(task.cls)] =
                    setCachedValue(@, CacheKey(task.cls, task.id),
                                   task.res, TtlOf(task.cls))],
     task |-> [task EXCEPT !.st = "returned", !.p = NoPromise]]

\* A data request function after its await: a response is cached with the
\* TTL of its class, and the response (or null) is returned.
requestDataResume(st, task) ==
    [state |-> IF task.res # Null
               THEN [st EXCEPT ![CacheOf(task.cls)] =
                         setCachedValue(@, CacheKey(task.cls, task.id),
                                        task.res, TtlOf(task.cls))]
               ELSE st,
     task |-> [task EXCEPT !.st = "returned", !.p = NoPromise]]

\* The promise of an executeRequest call resolves: every invocation that
\* awaits it gets its continuation queued with the result.
Deliver(task, p, result) ==
    IF task.st = "await" /\ task.p = p
    THEN [task EXCEPT !.st = "resumable", !.res = result]
    ELSE task

\* -------------------------------------------------------------- the world
\* Coordinates are integers, in units of 0.00001 degree.
\* normalizeCoordinate(value) is value.toFixed(4): the value rounded to four
\* decimals, as a string (here the number of 0.0001 degrees).
normalizeCoordinate(value) == ToString((value + 5) \div 10)

\* `${normalizeCoordinate(latitude)},${normalizeCoordinate(longitude)}`
CoordinateKey(latitude, longitude) ==
    normalizeCoordinate(latitude) \o "," \o normalizeCoordinate(longitude)

\* The view centers of the stationary events: two of them normalize to the
\* same key.
Centers == {<<12, 7>>, <<14, 7>>, <<26, 7>>}

\* What a complete points document names.
StationsUrlOf(pointsId) == "stations/" \o pointsId
ForecastUrlOf(pointsId) == "forecast/" \o pointsId

\* A station feature: whether it has a properties object, its
\* properties.stationIdentifier (or null) and its geometry: "point" (finite
\* coordinates), "none" (no geometry) or "malformed" (coordinates that cannot
\* be destructured).
StationFeature(id, geometry, latitude, longitude) ==
    [properties |-> TRUE, stationIdentifier |-> id, geometry |-> geometry,
     latitude |-> latitude, longitude |-> longitude]

\* A feature without properties whose coordinates cannot be destructured.
InvalidFeature ==
    [properties |-> FALSE, stationIdentifier |-> Null,
     geometry |-> "malformed", latitude |-> 0, longitude |-> 0]

\* The features of a station list: four stations around the first center, an
\* empty list elsewhere; in place of either, the upstream may send a list
\* with an invalid feature (the response "invalid").
StationFeatures(url, res) ==
    IF res = "invalid"
    THEN << InvalidFeature >>
    ELSE IF url = StationsUrlOf("1,1")
         THEN << StationFeature("S1", "point", 213, 431),
                 StationFeature("S2", "none", 0, 0),
                 StationFeature("S3", "malformed", 0, 0),
                 StationFeature(Null, "none", 0, 0) >>
         ELSE << >>

\* How the upstream may answer a request of SpecRun: only points and station
\* documents come in the incomplete shape, only station lists with an invalid
\* feature.
RunOutcomes(key) ==
    CASE key[1] = "points" -> Outcomes
      [] key[1] = "stations" -> Outcomes \cup {"invalid"}
      [] OTHER -> Outcomes \ {"bare"}

\* ------------------------------------------------------- the orchestrator
\* A data request function called and, when it gets null at once, resumed.
requestDataReturns(nt, r) == [state |-> r.state, net |-> nt, task |-> r.task]
requestDataCalled(c) ==
    IF c.task.st = "resumable"
    THEN requestDataReturns(c.net, requestDataResume(c.state, c.task))
    ELSE c
requestData(st, nt, held, cls, id) ==
    requestDataCalled(requestDataCall(st, nt, held, cls, id))

\* A promise resolved to null: requestForecast without coordinates or
\* without a forecast URL, Promise.resolve(null).
ReturnedNull ==
    [st |-> "returned", cls |-> "forecast", id |-> "", p |-> NoPromise, res |-> Null]

\* nwsPoints?.data?.properties?.observationStations
observationStationsUrl(task) ==
    IF task.res = "full" THEN StationsUrlOf(task.id) ELSE Null

\* points?.data?.properties?.forecast
forecastUrl(task) ==
    IF task.res = "full" THEN ForecastUrlOf(task.id) ELSE Null

\* Mutation: the check of the features member is skipped.
hasFeaturesUnchecked(task) == TRUE

\* observationStations?.data?.features is there (an empty list is)
hasFeatures(task) == task.res \in {"full", "invalid"}

\* The properties of a cloned feature before the merge.
OriginalProps == [merged |-> FALSE, observation |-> Null, forecast |-> Null]

\* processProperties({...feature.properties, ...observation, ...forecast}):
\* which observation and which forecast went into the merge.
mergedProperties(obs, fc) ==
    [merged |-> TRUE,
     observation |-> IF obs.res = "full" THEN obs.id ELSE Null,
     forecast |-> IF fc.res = "full" THEN fc.id ELSE Null]

\* The catch block of a branch: the error is logged, with
\* feature.properties.stationIdentifier, and the branch's promise is
\* fulfilled; reading the identifier of a feature without properties throws,
\* and the promise is rejected.
branchCatch(f) == IF f.properties THEN "done" ELSE "rejected"

\* One branch of the fan-out from its start to its first await.
\*   pc = "wait"      suspended at Promise.all([observation, forecast])
\*        "done"      fulfilled
\*        "rejected"  rejected
\*   fcStage: requestForecast is at `await requestPoints` ("points"), at
\*        requestForecastByUrl ("forecast"), or has returned ("done")
branchEnds(st, nt, f, pc) ==
    [state |-> st, net |-> nt,
     branch |-> [f |-> f, pc |-> pc, obs |-> ReturnedNull,
                 fc |-> ReturnedNull, fcStage |-> "done",
                 props |-> OriginalProps]]

branchWaits(f, obs, g) ==
    [state |-> g.state, net |-> g.net,
     branch |-> [f |-> f, pc |-> "wait", obs |-> obs, fc |-> g.task,
                 fcStage |-> IF f.geometry = "point" THEN "points" ELSE "done",
                 props |-> OriginalProps]]

\* requestForecast(latitude, longitude) up to its await, or
\* Promise.resolve(null)
branchForecast(o, held, f) ==
    branchWaits(f, o.task,
        IF f.geometry = "point"
        THEN requestData(o.state, o.net, held, "points",
                         CoordinateKey(f.latitude, f.longitude))
        ELSE [state |-> o.state, net |-> o.net, task |-> ReturnedNull])

\* Mutation: a feature without stationIdentifier is not skipped.
startBranchUnskipped(st, nt, held, f) ==
    IF f.geometry = "malformed"
    THEN branchEnds(st, nt, f, branchCatch(f))
    ELSE branchForecast(
             requestData(st, nt, held, "observations", f.stationIdentifier),
             held, f)

startBranch(st, nt, held, f) ==
    IF f.geometry = "malformed"
    THEN branchEnds(st, nt, f, branchCatch(f))
    ELSE IF f.stationIdentifier = Null
         THEN branchEnds(st, nt, f, "done")
         ELSE branchForecast(
                  requestData(st, nt, held, "observations",
                              f.stationIdentifier),
                  held, f)

\* structuredStationData.features.map(async (feature) => ...): the branches
\* start one after the other, each running to its first await.
nextBranch(prev, held, f) == startBranch(prev.state, prev.net, held, f)

startBranches(st, nt, held, features) ==
    LET after[i \in 0..Len(features)] ==
            IF i = 0
            THEN [state |-> st, net |-> nt]
            ELSE nextBranch(after[i - 1], held, features[i])
    IN [state |-> after[Len(features)].state,
        net |-> after[Len(features)].net,
        branches |-> [i \in 1..Len(features) |-> after[i].branch]]

\* One call of createObservationStationsLayer.
\*   pc = "idle"      not started
\*        "points"    at `await requestPoints`
\*        "stations"  at `await requestObservationStations`
\*        "fanout"    at `await Promise.all(allFeaturePromises)`
\*        "renderer"  at `await createRenderer`
\*        "icons"     at `await Promise.all(uniqueValueInfos.map(...))`
\*        "done"      completed: outcome "ended" (early return), "threw"
\*                    (an exception left the function) or "published"
IdleRun ==
    [pc |-> "idle", key |-> "", task |-> IdleTask, feats |-> << >>,
     outcome |-> "none"]

\* Mutation: the guard looks at the last published key only.
keyGuardRejectsLastOnly(st, key) == key = st.lastObservationStationsKey

\* The key guard of createObservationStationsLayer.
keyGuardRejects(st, key) ==
    \/ key = st.lastObservationStationsKey
    \/ key = st.inFlightObservationStationsKey

\* Mutation: the finally block clears the in-flight key whatever it is.
runFinallyClearsAny(st, key) ==
    [st EXCEPT !.inFlightObservationStationsKey = ""]

\* Mutation: the finally block records the key as refreshed.
runFinallyRecordsKey(st, key) ==
    [st EXCEPT !.lastObservationStationsKey = key,
               !.inFlightObservationStationsKey =
                   IF @ = key THEN "" ELSE @]

\* The finally block of createObservationStationsLayer.
runFinally(st, key) ==
    IF st.inFlightObservationStationsKey = key
    THEN [st EXCEPT !.inFlightObservationStationsKey = ""]
    ELSE st

\* removeExistingForecastLayer()
removeExistingForecastLayer(st) == [st EXCEPT !.forecastLayer = Null]

BlobUrlOf(r) == "blob:" \o ToString(r)
LayerOf(r) == "layer:" \o ToString(r)

BranchTasks(b) == {b.obs, b.fc}
RunTasks(run) ==
    {run.task} \cup UNION {BranchTasks(run.feats[i]) : i \in DOMAIN run.feats}
HeldByRuns ==
    {t.p : t \in UNION {RunTasks(runs[r]) : r \in DOMAIN runs}} \ {NoPromise}

\* Queued continuations of the orchestrator.
RunContinues(r) ==
    /\ runs[r].pc \in {"points", "stations"}
    /\ runs[r].task.st = "returned"
BranchForecastContinues(r, i) ==
    /\ runs[r].feats[i].pc = "wait"
    /\ runs[r].feats[i].fcStage = "points"
    /\ runs[r].feats[i].fc.st = "returned"
BranchJoins(r, i) ==
    /\ runs[r].feats[i].pc = "wait"
    /\ runs[r].feats[i].fcStage \in {"forecast", "done"}
    /\ runs[r].feats[i].fc.st = "returned"
    /\ runs[r].feats[i].obs.st = "returned"
\* Mutation: the join is a race, over as soon as one branch has settled.
FanoutRaces(r) ==
    /\ runs[r].pc = "fanout"
    /\ \E i \in DOMAIN runs[r].feats :
          runs[r].feats[i].pc \in {"done", "rejected"}

\* await Promise.all(allFeaturePromises) is over: a branch is rejected, or
\* all are fulfilled.
FanoutJoins(r) ==
    /\ runs[r].pc = "fanout"
    /\ \/ \E i \in DOMAIN runs[r].feats : runs[r].feats[i].pc = "rejected"
       \/ \A i \in DOMAIN runs[r].feats : runs[r].feats[i].pc = "done"
BranchContinues(r, i) ==
    BranchForecastContinues(r, i) \/ BranchJoins(r, i)
RunEnabled(r) ==
    \/ RunContinues(r)
    \/ FanoutJoins(r)
    \/ \E i \in DOMAIN runs[r].feats : BranchContinues(r, i)
RunsQuiescent == \A r \in DOMAIN runs : ~RunEnabled(r)

\* Queued continuations run first in, first out: those of an earlier call
\* before those of a later one, those of a call's branches in the order of
\* the features, the join of the fan-out after its branches.
FirstRun(r) == \A q \in 1..(r - 1) : ~RunEnabled(q)
FirstBranch(r, i) ==
    /\ FirstRun(r)
    /\ \A j \in 1..(i - 1) : ~BranchContinues(r, j)
LastOfRun(r) ==
    /\ FirstRun(r)
    /\ \A j \in DOMAIN runs[r].feats : ~BranchContinues(r, j)

\* No feature under way.
NoMerge == [kind |-> "none"]

\* No getCachedValue call yet.
NoGet == [key |-> "", value |-> Null, at |-> 0]

\* ------------------------------------------------------------------- Init
InitState ==
    [failedRequestCache |-> <<>>,
     iconStatusCache |-> <<>>,
     inFlightIconChecks |-> <<>>,
     forecastLayer |-> Null,
     forecastLayerUrl |-> "",
     forecastCache |-> <<>>,
     inFlightObservationStationsKey |-> "",
     inFlightRequests |-> <<>>,
     lastObservationStationsKey |-> "",
     latestObservationsCache |-> <<>>,
     observationStationsLayer |-> Null,
     observationStationsLayerUrl |-> "",
     observationStationsCache |-> <<>>,
     pointsCache |-> <<>>]

\* Every variable but merge.
InitProgram ==
    /\ state = InitState
    /\ now = 0
    /\ net = <<>>
    /\ callers = [c \in 1..MaxCallers |-> IdleTask]
    /\ cache = <<>>
    /\ sets = 0
    /\ ticks = 0
    /\ lastGet = NoGet
    /\ stored = <<>>
    /\ runs = [r \in 1..MaxRuns |-> IdleRun]
    /\ mapLayers = {}
    /\ blobUrls = << >>
    /\ lastEventKey = ""

Init ==
    /\ InitProgram
    /\ merge = NoMerge

\* ------------------------------------------- Spec: the request layer alone
\* Callers invoke the data request functions directly, for these keys.
CallerKeys == {CacheKey("points", "1,1"), CacheKey("observations", "S1")}

HeldByCallers == {callers[c].p : c \in DOMAIN callers} \ {NoPromise}
Held == HeldByCallers \cup HeldByRuns

\* No continuation is queued.
CallersQuiescent ==
    \A c \in DOMAIN callers : callers[c].st \in {"idle", "await"}

\* A caller (the lowest free one: free callers are interchangeable) invokes a data request function.
Call(c, cls, id) ==
    /\ CallersQuiescent
    /\ callers[c].st = "idle"
    /\ \A d \in 1..(c - 1) : callers[d].st # "idle"
    /\ LET r == requestDataCall(state, net, HeldByCallers, cls, id)
       IN /\ state' = r.state
          /\ net' = r.net
          /\ callers' = [callers EXCEPT ![c] = r.task]
    /\ UNCHANGED <<now, cacheVars, propVars, runVars>>

\* The underlying request of promise p settles.
Settle(p, outcome) ==
    /\ CallersQuiescent
    /\ p \in DOMAIN net
    /\ LET r == executeRequestSettle(state, net[p], outcome)
       IN /\ state' = r.state
          /\ callers' = [c \in DOMAIN callers |->
                            Deliver(callers[c], p, r.result)]
    /\ net' = MapDelete(net, p)
    /\ UNCHANGED <<now, cacheVars, propVars, runVars>>

\* A queued continuation of a data request function runs.
Resume(c) ==
    /\ callers[c].st = "resumable"
    /\ LET r == requestDataResume(state, callers[c])
       IN /\ state' = r.state
          /\ callers' = [callers EXCEPT ![c] = r.task]
    /\ UNCHANGED <<now, net, cacheVars, propVars, runVars>>

\* The caller takes the returned value.
Return(c) ==
    /\ callers[c].st = "returned"
    /\ callers' = [callers EXCEPT ![c] = IdleTask]
    /\ UNCHANGED <<state, now, net, cacheVars, propVars, runVars>>

\* The clock moves on.
Tick(d) ==
    /\ CallersQuiescent
    /\ RunsQuiescent
    /\ now < MaxTicks * TickMs
    /\ now' = now + d
    /\ UNCHANGED <<state, net, callers, cacheVars, propVars, runVars>>

Next ==
    \/ \E c \in 1..MaxCallers, k \in CallerKeys : Call(c, k[1], k[2])
    \/ \E p \in PromiseIds, o \in Outcomes : Settle(p, o)
    \/ \E c \in 1..MaxCallers : Resume(c)
    \/ \E c \in 1..MaxCallers : Return(c)
    \/ \E d \in TickSteps : Tick(d)

Spec == Init /\ [][Next]_vars

\* ------------------------------------------ SpecCache: one TTL cache alone
CacheKeys == {"a", "b"}
CacheValues == {"v", "w"}
\* TTLs the program stores entries with: the two shortest ones.
CacheTtls == {failedRequestCacheTimeToLive, observationsCacheTimeToLive}
\* The clock moves by a millisecond, or to a millisecond before a TTL is over.
CacheTickSteps == {1} \cup {ttl - 1 : ttl \in CacheTtls}

CacheSet(key, value, ttlMs) ==
    /\ sets < MaxSets
    /\ cache' = setCachedValue(cache, key, value, ttlMs)
    /\ stored' = MapSet(stored, key, [value |-> value, at |-> now, ttl |-> ttlMs])
    /\ sets' = sets + 1
    /\ lastGet' = NoGet
    /\ UNCHANGED <<state, now, net, callers, ticks, runVars, propVars>>

CacheGet(key) ==
    /\ cache' = getCachedValue(cache, key).cache
    /\ lastGet' = [key |-> key, value |-> getCachedValue(cache, key).value,
                   at |-> now]
    /\ UNCHANGED <<state, now, net, callers, sets, ticks, stored, runVars, propVars>>

CacheTick(d) ==
    /\ ticks < MaxTicks
    /\ ticks' = ticks + 1
    /\ now' = now + d
    /\ UNCHANGED <<state, net, callers, cache, sets, lastGet, stored, runVars, propVars>>

NextCache ==
    \/ \E k \in CacheKeys, v \in CacheValues, ttl \in CacheTtls : CacheSet(k, v, ttl)
    \/ \E k \in CacheKeys : CacheGet(k)
    \/ \E d \in CacheTickSteps : CacheTick(d)

SpecCache == Init /\ [][NextCache]_vars

\* --------------------------------- SpecRun: the stations-layer orchestrator
\* The steps below are the stretches of createObservationStationsLayer between
\* two awaits. An event, a response of the network or of the renderer and a
\* move of the clock are tasks of the event loop: they are taken only when no
\* continuation is queued.

\* The continuation of a data request function that awaits promise p.
resumeTask(st, task, p, result) ==
    IF task.st = "await" /\ task.p = p
    THEN requestDataResume(st, Deliver(task, p, result)).task
    ELSE task

resumeRun(st, run, p, result) ==
    [run EXCEPT
       !.task = resumeTask(st, @, p, result),
       !.feats = [i \in DOMAIN run.feats |->
                     [run.feats[i] EXCEPT
                        !.obs = resumeTask(st, @, p, result),
                        !.fc = resumeTask(st, @, p, result)]]]

\* The data request functions of the orchestrator that await promise p.
Waiters(p) ==
    {t \in UNION {RunTasks(runs[r]) : r \in DOMAIN runs} :
        t.st = "await" /\ t.p = p}

\* The calls of createObservationStationsLayer that have not completed.
RunsInProgress == {r \in DOMAIN runs : runs[r].pc \notin {"idle", "done"}}

\* The run has ended: its finally block runs.
finishRun(run, outcome) ==
    [run EXCEPT !.pc = "done", !.outcome = outcome, !.task = IdleTask,
                !.feats = << >>]

\* arcgisViewChange with a stationary view centered at (latitude, longitude):
\* removeExistingForecastLayer, then createObservationStationsLayer up to
\* its first await.
StationaryEvent(latitude, longitude) ==
    LET key == CoordinateKey(latitude, longitude)
        st0 == removeExistingForecastLayer(state)
    IN /\ CallersQuiescent
       /\ RunsQuiescent
       /\ lastEventKey' = key
       /\ mapLayers' = mapLayers \ {state.forecastLayer}
       /\ IF keyGuardRejects(st0, key)
          THEN /\ state' = st0
               /\ UNCHANGED <<net, runs>>
          ELSE \E r \in DOMAIN runs :
                 /\ runs[r].pc = "idle"
                 /\ \A q \in 1..(r - 1) : runs[q].pc # "idle"
                 /\ LET st1 == [st0 EXCEPT
                                  !.inFlightObservationStationsKey = key]
                        c == requestData(st1, net, Held, "points",
                                         CoordinateKey(latitude, longitude))
                    IN /\ state' = c.state
                       /\ net' = c.net
                       /\ runs' = [runs EXCEPT ![r] =
                             [IdleRun EXCEPT
                                !.pc = "points", !.key = key,
                                !.task = c.task]]
       /\ UNCHANGED <<now, callers, cacheVars, propVars, blobUrls>>

\* The underlying request of promise p settles; the data request functions
\* that await it cache the response and return.
SettleRun(p, outcome) ==
    /\ CallersQuiescent
    /\ RunsQuiescent
    /\ p \in DOMAIN net
    /\ outcome \in RunOutcomes(net[p])
    /\ LET r == executeRequestSettle(state, net[p], outcome)
           st2 == IF Waiters(p) = {}
                  THEN r.state
                  ELSE requestDataResume(r.state,
                           Deliver(CHOOSE t \in Waiters(p) : TRUE,
                                   p, r.result)).state
       IN /\ state' = st2
          /\ runs' = [q \in DOMAIN runs |->
                         resumeRun(r.state, runs[q], p, r.result)]
    /\ net' = MapDelete(net, p)
    /\ UNCHANGED <<now, callers, cacheVars, propVars, mapLayers, blobUrls, lastEventKey>>

\* After `await requestPoints`.
RunAfterPoints(r) ==
    /\ runs[r].pc = "points"
    /\ RunContinues(r)
    /\ FirstRun(r)
    /\ LET url == observationStationsUrl(runs[r].task)
       IN IF url = Null
          THEN /\ state' = runFinally(state, runs[r].key)
               /\ runs' = [runs EXCEPT ![r] = finishRun(@, "ended")]
               /\ UNCHANGED net
          ELSE LET c == requestData(state, net, Held, "stations", url)
               IN /\ state' = c.state
                  /\ net' = c.net
                  /\ runs' = [runs EXCEPT ![r] =
                        [@ EXCEPT !.pc = "stations", !.task = c.task]]
    /\ UNCHANGED <<now, callers, cacheVars, propVars, mapLayers, blobUrls, lastEventKey>>

\* After `await requestObservationStations`: the fan-out starts.
RunAfterStations(r) ==
    /\ runs[r].pc = "stations"
    /\ RunContinues(r)
    /\ FirstRun(r)
    /\ IF ~hasFeatures(runs[r].task)
       THEN /\ state' = runFinally(state, runs[r].key)
            /\ runs' = [runs EXCEPT ![r] = finishRun(@, "ended")]
            /\ UNCHANGED net
       ELSE LET b == startBranches(state, net, Held,
                                   StationFeatures(runs[r].task.id,
                                                   runs[r].task.res))
            IN /\ state' = b.state
               /\ net' = b.net
               /\ runs' = [runs EXCEPT ![r] =
                     [@ EXCEPT !.pc = "fanout", !.task = IdleTask,
                               !.feats = b.branches]]
    /\ UNCHANGED <<now, callers, cacheVars, propVars, mapLayers, blobUrls, lastEventKey>>

\* requestForecast after `await requestPoints`, in branch i of run r.
BranchAfterForecastPoints(r, i) ==
    /\ i \in DOMAIN runs[r].feats
    /\ BranchForecastContinues(r, i)
    /\ FirstBranch(r, i)
    /\ LET url == forecastUrl(runs[r].feats[i].fc)
       IN IF url = Null
          THEN /\ runs' = [runs EXCEPT ![r].feats[i] =
                     [@ EXCEPT !.fc = ReturnedNull, !.fcStage = "done"]]
               /\ UNCHANGED <<state, net>>
          ELSE LET c == requestData(state, net, Held, "forecast", url)
               IN /\ state' = c.state
                  /\ net' = c.net
                  /\ runs' = [runs EXCEPT ![r] =
                        [@ EXCEPT !.feats[i].fc = c.task,
                                  !.feats[i].fcStage = "forecast"]]
    /\ UNCHANGED <<now, callers, cacheVars, propVars, mapLayers, blobUrls, lastEventKey>>

\* Branch i of run r after its Promise.all: the merge into the feature.
BranchMerge(r, i) ==
    /\ i \in DOMAIN runs[r].feats
    /\ BranchJoins(r, i)
    /\ FirstBranch(r, i)
    /\ runs' = [runs EXCEPT ![r].feats[i] =
          [@ EXCEPT !.pc = "done",
                    !.props = mergedProperties(runs[r].feats[i].obs,
                                               runs[r].feats[i].fc)]]
    /\ UNCHANGED <<state, now, net, callers, cacheVars, propVars, mapLayers, blobUrls,
                   lastEventKey>>

\* JSON.stringify(structuredStationData): the features as the branches left
\* them.
collection(feats) ==
    [i \in DOMAIN feats |->
        [stationIdentifier |-> feats[i].f.stationIdentifier,
         props |-> feats[i].props]]

\* After `await Promise.all(allFeaturePromises)`: the blob URL and the layer
\* are created, createRenderer is called.
\* Mutation: the previous object URL is not revoked.
revokeNone(urls, st) == urls

\* URL.revokeObjectURL(state.observationStationsLayerUrl), if there is one
revokePrevious(urls, st) ==
    IF st.observationStationsLayerUrl # ""
    THEN MapDelete(urls, st.observationStationsLayerUrl)
    ELSE urls

RunAfterFanout(r) ==
    /\ FanoutJoins(r)
    /\ LastOfRun(r)
    /\ IF \E i \in DOMAIN runs[r].feats : runs[r].feats[i].pc = "rejected"
       THEN /\ state' = runFinally(state, runs[r].key)
            /\ runs' = [runs EXCEPT ![r] = finishRun(@, "threw")]
            /\ UNCHANGED blobUrls
       ELSE /\ state' = [state EXCEPT
                           !.observationStationsLayerUrl = BlobUrlOf(r)]
            /\ blobUrls' = revokePrevious(
                               MapSet(blobUrls, BlobUrlOf(r),
                                      collection(runs[r].feats)),
                               state)
            /\ runs' = [runs EXCEPT ![r] =
                  [@ EXCEPT !.pc = "renderer", !.feats = << >>]]
    /\ UNCHANGED <<now, net, callers, cacheVars, propVars, mapLayers, lastEventKey>>

\* The layer of run r is put on the map and its key recorded; the finally
\* block runs.
publish(st, r) ==
    runFinally([st EXCEPT !.observationStationsLayer = LayerOf(r),
                          !.lastObservationStationsKey = runs[r].key],
               runs[r].key)

\* Mutation: the layer published before is not removed.
publishedLayersKept(st, r) == mapLayers \cup {LayerOf(r)}

publishedLayers(st, r) == (mapLayers \ {st.observationStationsLayer}) \cup {LayerOf(r)}

\* createRenderer settles: it rejects, or it fulfils with a renderer that has
\* icons to probe or none.
RendererSettles(r, result) ==
    /\ CallersQuiescent
    /\ RunsQuiescent
    /\ runs[r].pc = "renderer"
    /\ CASE result = "rejected" ->
              /\ state' = runFinally(state, runs[r].key)
              /\ runs' = [runs EXCEPT ![r] = finishRun(@, "threw")]
              /\ UNCHANGED mapLayers
         [] result = "icons" ->
              /\ runs' = [runs EXCEPT ![r].pc = "icons"]
              /\ UNCHANGED <<state, mapLayers>>
         [] result = "noIcons" ->
              /\ state' = publish(state, r)
              /\ mapLayers' = publishedLayers(state, r)
              /\ runs' = [runs EXCEPT ![r] = finishRun(@, "published")]
    /\ UNCHANGED <<now, net, callers, cacheVars, propVars, blobUrls, lastEventKey>>

\* The icon probes of run r have all settled.
IconsSettle(r) ==
    /\ CallersQuiescent
    /\ RunsQuiescent
    /\ runs[r].pc = "icons"
    /\ state' = publish(state, r)
    /\ mapLayers' = publishedLayers(state, r)
    /\ runs' = [runs EXCEPT ![r] = finishRun(@, "published")]
    /\ UNCHANGED <<now, net, callers, cacheVars, propVars, blobUrls, lastEventKey>>

\* The clock moves on by the lifetime of a failed-request marker. A request
\* times out after requestTimeout, so none is pending across the move.
TickRun ==
    /\ CallersQuiescent
    /\ RunsQuiescent
    /\ requestTimeout < failedRequestCacheTimeToLive
    /\ net = << >>
    /\ now + failedRequestCacheTimeToLive <= MaxTicks * TickMs
    /\ now' = now + failedRequestCacheTimeToLive
    /\ UNCHANGED <<state, net, callers, cacheVars, propVars, runVars>>

RendererResults == {"rejected", "icons", "noIcons"}
BranchIndexes == 1..4

NextRun ==
    \/ \E c \in Centers : StationaryEvent(c[1], c[2])
    \/ \E p \in PromiseIds, o \in Outcomes \cup {"invalid"} : SettleRun(p, o)
    \/ \E r \in 1..MaxRuns : RunAfterPoints(r)
    \/ \E r \in 1..MaxRuns : RunAfterStations(r)
    \/ \E r \in 1..MaxRuns, i \in BranchIndexes : BranchAfterForecastPoints(r, i)
    \/ \E r \in 1..MaxRuns, i \in BranchIndexes : BranchMerge(r, i)
    \/ \E r \in 1..MaxRuns : RunAfterFanout(r)
    \/ \E r \in 1..MaxRuns, x \in RendererResults : RendererSettles(r, x)
    \/ \E r \in 1..MaxRuns : IconsSettle(r)
    \/ TickRun

SpecRun == Init /\ [][NextRun]_vars

\* ----------------------- SpecProps: one feature through its fan-out branch
\* JSON values as the upstream sends them. An object is the sequence of its
\* entries in insertion order, which Object.entries and the spread follow.
JsString(s) == [t |-> "string", s |-> s]
JsNumber(n) == [t |-> "number", n |-> n]
JsBoolean(b) == [t |-> "boolean", b |-> b]
JsNull == [t |-> "null"]
JsObject(entries) == [t |-> "object", entries |-> entries]
JsArray(items) == [t |-> "array", items |-> items]
Entry(k, v) == [k |-> k, v |-> v]

\* String(value) of a scalar.
String(value) ==
    CASE value.t = "string" -> value.s
      [] value.t = "number" -> ToString(value.n)
      [] value.t = "boolean" -> (IF value.b THEN "true" ELSE "false")
      [] value.t = "null" -> "null"

\* result[key] = value: an existing key keeps its position.
Assign(entries, key, value) ==
    IF \E i \in DOMAIN entries : entries[i].k = key
    THEN [i \in DOMAIN entries |->
             IF entries[i].k = key THEN Entry(key, value) ELSE entries[i]]
    ELSE Append(entries, Entry(key, value))

\* Object.assign(target, source), and one `...source` of an object literal.
RECURSIVE AssignAll(_, _)
AssignAll(target, source) ==
    IF source = << >>
    THEN target
    ELSE AssignAll(Assign(target, Head(source).k, Head(source).v),
                   Tail(source))

\* Mutation: the indexes of a nested array count from one.
ArrayEntriesFromOne(items) ==
    [i \in DOMAIN items |-> Entry(ToString(i), items[i])]

\* Object.entries of an array: its indexes as keys.
ArrayEntries(items) ==
    [i \in DOMAIN items |-> Entry(ToString(i - 1), items[i])]

\* processProperties(object, prefix): processEntries is its loop over
\* Object.entries(object), processItems the forEach over an array value.
RECURSIVE processEntries(_, _, _)
RECURSIVE processItems(_, _, _, _)
processEntries(entries, prefix, result) ==
    IF entries = << >>
    THEN result
    ELSE LET key == Head(entries).k
             value == Head(entries).v
             newKey == IF prefix # "" THEN prefix \o "_" \o key ELSE key
         IN  processEntries(Tail(entries), prefix,
                 CASE value.t = "array" ->
                          processItems(value.items, newKey, 0, result)
                   [] value.t = "object" ->
                          AssignAll(result,
                              processEntries(value.entries, newKey, << >>))
                   [] value.t = "null" ->
                          Assign(result, newKey, JsString(""))
                   [] OTHER ->
                          Assign(result, newKey, JsString(String(value))))

processItems(items, newKey, index, result) ==
    IF items = << >>
    THEN result
    ELSE LET item == Head(items)
             itemKey == newKey \o "_" \o ToString(index)
         IN  processItems(Tail(items), newKey, index + 1,
                 CASE item.t = "object" ->
                          AssignAll(result,
                              processEntries(item.entries, itemKey, << >>))
                   [] item.t = "array" ->
                          AssignAll(result,
                              processEntries(ArrayEntries(item.items),
                                             itemKey, << >>))
                   [] OTHER ->
                          Assign(result, itemKey, JsString(String(item))))

processProperties(object) == processEntries(object, "", << >>)

\* Mutation: the sources are spread in the opposite order.
spreadReversed(original, observation, forecast) ==
    AssignAll(AssignAll(AssignAll(<< >>, forecast), observation), original)

\* Mutation: the observation properties are left out of the merge.
spreadWithoutObservation(original, observation, forecast) ==
    AssignAll(AssignAll(<< >>, original), forecast)

\* { ...original, ...observation, ...forecast }
spread(original, observation, forecast) ==
    AssignAll(AssignAll(AssignAll(<< >>, original), observation), forecast)

\* What a data request function returned to the branch: null, or a document
\* with these properties.
NoResponse == [ok |-> FALSE, properties |-> << >>]
Response(properties) == [ok |-> TRUE, properties |-> properties]

\* response?.data?.properties ?? {}
propertiesOrEmpty(response) ==
    IF response.ok THEN response.properties ELSE << >>

\* feature?.properties?.stationIdentifier is truthy
hasStationIdentifier(properties) ==
    \E i \in DOMAIN properties :
        /\ properties[i].k = "stationIdentifier"
        /\ properties[i].v.t = "string"
        /\ properties[i].v.s # ""

\* The properties a branch of the fan-out leaves on its feature: a feature
\* whose coordinates cannot be destructured goes to the catch block, one
\* without a station identifier is skipped, any other gets the flattened
\* merge.
branchProperties(f) ==
    IF f.geometry = "malformed" \/ ~hasStationIdentifier(f.original)
    THEN f.original
    ELSE processProperties(
             spread(f.original, propertiesOrEmpty(f.observation),
                    propertiesOrEmpty(f.forecast)))

\* The upstream properties SpecProps draws from: objects of at most
\* MaxEntries properties under these names, whose values are a string naming
\* the source, null, an object and an array with every kind of item.
Keys == {"t", "t_v"}
Values(src) ==
    {JsString(src), JsNull, JsObject(<<Entry("v", JsString(src))>>),
     JsArray(<<JsNumber(5), JsArray(<<JsBoolean(TRUE)>>), JsObject(<< >>),
               JsNull>>)}
Objects(src) ==
    UNION {{o \in [1..n -> {Entry(k, v) : k \in Keys, v \in Values(src)}] :
               \A i, j \in 1..n : i # j => o[i].k # o[j].k} :
           n \in 0..MaxEntries}
PropertyResponses(src) == {NoResponse} \cup {Response(o) : o \in Objects(src)}

\* The station features of SpecProps and what their two requests return: a
\* skipped or failing branch has issued no request, a feature without finite
\* coordinates gets Promise.resolve(null) for its forecast.
Feature(geometry, original, observation, forecast) ==
    [kind |-> "feature", geometry |-> geometry, original |-> original,
     observation |-> observation, forecast |-> forecast]

Identified(properties) ==
    <<Entry("stationIdentifier", JsString("S1"))>> \o properties

Features ==
    {Feature("malformed", Identified(o), NoResponse, NoResponse) :
         o \in Objects("o")}
    \cup {Feature(g, o, NoResponse, NoResponse) :
              g \in {"point", "none", "malformed"}, o \in Objects("o")}
    \cup {Feature("none", Identified(o), b, NoResponse) :
              o \in Objects("o"), b \in PropertyResponses("b")}
    \cup {Feature("point", Identified(o), b, f) :
              o \in Objects("o"), b \in PropertyResponses("b"),
              f \in PropertyResponses("f")}

InitProps ==
    /\ InitProgram
    /\ merge \in Features

\* The branch of one feature runs to its end and the collection of that
\* feature is serialized.
FeatureBranch ==
    /\ merge.kind = "feature"
    /\ merge' = [kind |-> "published", feature |-> merge,
                 properties |-> branchProperties(merge)]
    /\ UNCHANGED <<state, now, net, callers, cacheVars, runVars>>

\* Mutation: the call empties the object it is given.
processPropertiesCallConsuming(object) ==
    [object |-> << >>, result |-> processProperties(object)]

\* A call of processProperties(object): the object afterwards (the function
\* writes to its own result only) and the value returned.
processPropertiesCall(object) ==
    [object |-> object, result |-> processProperties(object)]

\* processProperties is called twice more on the object a merged feature was
\* flattened from.
FlattenTwice ==
    /\ merge.kind = "published"
    /\ merge.feature.geometry # "malformed"
    /\ hasStationIdentifier(merge.feature.original)
    /\ merge' = [kind |-> "flattened", feature |-> merge.feature,
                 properties |-> merge.properties,
                 first |-> processPropertiesCall(
                     spread(merge.feature.original,
                            propertiesOrEmpty(merge.feature.observation),
                            propertiesOrEmpty(merge.feature.forecast))),
                 second |-> processPropertiesCall(
                     processPropertiesCall(
                         spread(merge.feature.original,
                                propertiesOrEmpty(merge.feature.observation),
                                propertiesOrEmpty(merge.feature.forecast))
                     ).object)]
    /\ UNCHANGED <<state, now, net, callers, cacheVars, runVars>>

NextProps == FeatureBranch \/ FlattenTwice

SpecProps == InitProps /\ [][NextProps]_vars

\* ------------------------------------------ SpecIcons: the icon probes alone
\* url.startsWith(prefix)
startsWith(url, prefix) ==
    Len(url) >= Len(prefix) /\ SubSeq(url, 1, Len(prefix)) = prefix

\* Mutation: only the empty URL is turned away.
probeableNonEmpty(url) == url # ""

\* isHttp200, the two early returns: is the URL one to probe?
probeable(url) ==
    /\ url # ""
    /\ startsWith(url, "http://") \/ startsWith(url, "https://")

\* Mutation: a cached false counts as a miss.
cachedHitTruthy(cached) == cached = True

\* isHttp200: cached !== null
cachedHit(cached) == cached # Null

\* Mutation: the in-flight lookup finds nothing.
inFlightIconCheckIgnored(st, url) == NoPromise

\* isHttp200: state.inFlightIconChecks.get(url)
inFlightIconCheck(st, url) ==
    IF url \in DOMAIN st.inFlightIconChecks
    THEN st.inFlightIconChecks[url]
    ELSE NoPromise

\* How a HEAD request ends: with status 200, with another status, with a
\* network error, or not before the abort timer fires.
ProbeOutcomes == {"200", "404", "error", "abort"}

\* checkIconStatus(url) up to its await: the abort timer is armed and the
\* HEAD request issued.
checkIconStatusStart(nt, held, url, outcome) ==
    [net |-> MapSet(nt, FreshPromise(nt, held),
                    [url |-> url, at |-> now, outcome |-> outcome]),
     promise |-> FreshPromise(nt, held)]

\* Mutation: the registration of the probe is never removed.
checkIconStatusFinallyMissing(st, url) == st

\* checkIconStatus, finally block.
checkIconStatusFinally(st, url) ==
    [st EXCEPT !.inFlightIconChecks = MapDelete(@, url)]

\* response.status === 200, false in the catch block
isOk(outcome) == IF outcome = "200" THEN True ELSE False

\* checkIconStatus after its await: the state afterwards and the value its
\* promise resolves to.
checkIconStatusSettle(st, probe) ==
    [state |-> checkIconStatusFinally(
                   [st EXCEPT !.iconStatusCache =
                        setCachedValue(@, probe.url, isOk(probe.outcome),
                                       iconCacheTimeToLive)],
                   probe.url),
     result |-> isOk(probe.outcome)]

IconTask(st, url, p, res) ==
    [st |-> st, cls |-> "icon", id |-> url, p |-> p, res |-> res]

\* isHttp200(url), past the early returns and the cache, with no probe in
\* flight: a probe is started and registered.
isHttp200Starts(st, c, url) ==
    [state |-> [st EXCEPT !.inFlightIconChecks = MapSet(@, url, c.promise)],
     net |-> c.net,
     task |-> IconTask("await", url, c.promise, Null)]

\* isHttp200(url) past the early returns, got being the cache read.
isHttp200Cached(st, nt, held, url, outcome, got) ==
    IF cachedHit(got.value)
    THEN [state |-> [st EXCEPT !.iconStatusCache = got.cache], net |-> nt,
          task |-> IconTask("returned", url, NoPromise, got.value)]
    ELSE IF inFlightIconCheck(st, url) # NoPromise
         THEN [state |-> [st EXCEPT !.iconStatusCache = got.cache],
               net |-> nt,
               task |-> IconTask("await", url, inFlightIconCheck(st, url),
                                 Null)]
         ELSE isHttp200Starts([st EXCEPT !.iconStatusCache = got.cache],
                              checkIconStatusStart(nt, held, url, outcome),
                              url)

\* isHttp200(url) up to its return: the state and the network afterwards and
\* the caller, holding the value or the promise it awaits.
isHttp200(st, nt, held, url, outcome) ==
    IF ~probeable(url)
    THEN [state |-> st, net |-> nt,
          task |-> IconTask("returned", url, NoPromise, False)]
    ELSE isHttp200Cached(st, nt, held, url, outcome,
                         getCachedValue(st.iconStatusCache, url))

\* The icon URLs the callers ask for.
IconUrls == {"", "icon.png", "http://a/i.png", "https://b/i.png"}

\* The clock of SpecIcons moves by half the request timeout, by the request
\* timeout or by the icon TTL.
IconTickSteps ==
    {requestTimeout \div 2, requestTimeout, iconCacheTimeToLive}

\* A caller (the lowest free one) calls isHttp200(url); outcome is how the
\* HEAD request will end if one is issued.
IconCall(c, url, outcome) ==
    /\ CallersQuiescent
    /\ callers[c].st = "idle"
    /\ \A d \in 1..(c - 1) : callers[d].st # "idle"
    /\ LET r == isHttp200(state, net, HeldByCallers, url, outcome)
       IN /\ state' = r.state
          /\ net' = r.net
          /\ callers' = [callers EXCEPT ![c] = r.task]
    /\ UNCHANGED <<now, cacheVars, propVars, runVars>>

\* The HEAD request of promise p settles: with its response or error before
\* the abort timer fires, by the abort when it fires.
IconSettle(p) ==
    /\ CallersQuiescent
    /\ p \in DOMAIN net
    /\ IF net[p].outcome = "abort"
       THEN now = net[p].at + requestTimeout
       ELSE now < net[p].at + requestTimeout
    /\ LET r == checkIconStatusSettle(state, net[p])
       IN /\ state' = r.state
          /\ callers' = [c \in DOMAIN callers |->
                            Deliver(callers[c], p, r.result)]
    /\ net' = MapDelete(net, p)
    /\ UNCHANGED <<now, cacheVars, propVars, runVars>>

\* A caller awaiting isHttp200 resumes with its value.
IconResume(c) ==
    /\ callers[c].st = "resumable"
    /\ callers' = [callers EXCEPT ![c].st = "returned", ![c].p = NoPromise]
    /\ UNCHANGED <<state, now, net, cacheVars, propVars, runVars>>

\* The clock moves on, up to the next abort timer and not past a response.
IconTick(d) ==
    /\ CallersQuiescent
    /\ ticks < MaxTicks
    /\ \A p \in DOMAIN net :
          IF net[p].outcome = "abort"
          THEN now + d <= net[p].at + requestTimeout
          ELSE now + d < net[p].at + requestTimeout
    /\ now' = now + d
    /\ ticks' = ticks + 1
    /\ UNCHANGED <<state, net, callers, cache, sets, lastGet, stored,
                   propVars, runVars>>

NextIcons ==
    \/ \E c \in 1..MaxCallers, url \in IconUrls, o \in ProbeOutcomes :
          IconCall(c, url, o)
    \/ \E p \in PromiseIds : IconSettle(p)
    \/ \E c \in 1..MaxCallers : IconResume(c)
    \/ \E c \in 1..MaxCallers : Return(c)
    \/ \E d \in IconTickSteps : IconTick(d)

SpecIcons == Init /\ [][NextIcons]_vars

\* ---------------------------- SpecTtl: the steps that store a cache entry
\* Every step of the program that calls setCachedValue, taken on its own at
\* any time: the continuation of a data request function holding the result
\* of its request, the catch block of executeRequest, and the continuation
\* of checkIconStatus.
TtlIds == {"k"}

\* A data request function resumes with the result of its request.
StoreData(cls, id, res) ==
    /\ state' = requestDataResume(state,
                    [st |-> "resumable", cls |-> cls, id |-> id,
                     p |-> NoPromise, res |-> res]).state
    /\ UNCHANGED <<now, net, callers, cacheVars, propVars, runVars>>

\* The underlying request of executeRequest settles.
StoreMarker(cls, id, outcome) ==
    /\ state' = executeRequestSettle(state, CacheKey(cls, id), outcome).state
    /\ UNCHANGED <<now, net, callers, cacheVars, propVars, runVars>>

\* The HEAD request of checkIconStatus, issued at time at, settles.
StoreIcon(url, at, outcome) ==
    /\ state' = checkIconStatusSettle(state,
                    [url |-> url, at |-> at, outcome |-> outcome]).state
    /\ UNCHANGED <<now, net, callers, cacheVars, propVars, runVars>>

TtlTick(d) ==
    /\ ticks < MaxTicks
    /\ ticks' = ticks + 1
    /\ now' = now + d
    /\ UNCHANGED <<state, net, callers, cache, sets, lastGet, stored,
                   propVars, runVars>>

\* One key per data class, failures of the observation request, one icon
\* URL; the clock moves by the shortest TTL.
NextTtl ==
    \/ \E cls \in Classes, id \in TtlIds, res \in {"full", Null} :
          StoreData(cls, id, res)
    \/ \E id \in TtlIds, o \in Outcomes : StoreMarker("observations", id, o)
    \/ \E o \in ProbeOutcomes : StoreIcon("https://b/i.png", now, o)
    \/ TtlTick(failedRequestCacheTimeToLive)

SpecTtl == Init /\ [][NextTtl]_vars

\* ------------------- SpecMain: one branch of the fan-out of src/src/main.ts
\* src/src/main.ts keeps its own request layer (no failed-request cache) and
\* chooses, per feature, between the forecast URL the feature carries and
\* the points lookup of its coordinates.
FORECAST_CACHE_TTL_MS == 5 * 60 * 1000
OBSERVATIONS_CACHE_TTL_MS == 2 * 60 * 1000
POINTS_STATIONS_CACHE_TTL_MS == 10 * 60 * 1000

\* The TTL each request function of main.ts passes to setCachedValue.
MainTtlOf(cls) ==
    CASE cls = "forecast" -> FORECAST_CACHE_TTL_MS
      [] cls = "observations" -> OBSERVATIONS_CACHE_TTL_MS
      [] OTHER -> POINTS_STATIONS_CACHE_TTL_MS

\* JS truthiness of a property that is absent (null), "" or a non-empty
\* string.
truthy(value) == value # Null /\ value # ""

\* requestWithDedupe of main.ts: the registered promise, or a new request
\* registered under cacheKey.
mainRequestWithDedupe(st, nt, held, cacheKey) ==
    IF inFlightLookup(st, cacheKey) # NoPromise
    THEN [state |-> st, net |-> nt, promise |-> inFlightLookup(st, cacheKey)]
    ELSE LET p == FreshPromise(nt, held)
         IN [state |-> [st EXCEPT !.inFlightRequests =
                            MapSet(@, cacheKey, p)],
             net |-> MapSet(nt, p, cacheKey), promise |-> p]

\* The request settles: the response or, after any failure, null; the
\* finally block removes the registration.
mainRequestSettle(st, cacheKey, outcome) ==
    [state |-> [st EXCEPT !.inFlightRequests = MapDelete(@, cacheKey)],
     result |-> IF outcome \in Responses THEN outcome ELSE Null]

\* requestForecastByUrl, requestLatestObservations and requestPoints of
\* main.ts from the call to the first await (or return): null without an
\* argument (for requestPoints: without finite coordinates), the cached
\* response if there is one, else the deduplicated request.
mainRequestDataCall(st, nt, held, cls, id) ==
    IF ~truthy(id)
    THEN [state |-> st, net |-> nt,
          task |-> [st |-> "returned", cls |-> cls, id |-> id,
                    p |-> NoPromise, res |-> Null]]
    ELSE LET key == CacheKey(cls, id)
             got == getCachedValue(st[CacheOf(cls)], key)
             st1 == [st EXCEPT ![CacheOf(cls)] = got.cache]
         IN IF got.value # Null
            THEN [state |-> st1, net |-> nt,
                  task |-> [st |-> "returned", cls |-> cls, id |-> id,
                            p |-> NoPromise, res |-> got.value]]
            ELSE LET d == mainRequestWithDedupe(st1, nt, held, key)
                 IN [state |-> d.state, net |-> d.net,
                     task |-> [st |-> "await", cls |-> cls, id |-> id,
                               p |-> d.promise, res |-> Null]]

\* The same functions after the await: a response is cached, and the
\* response (or null) is returned.
mainRequestDataResume(st, task) ==
    [state |-> IF task.res # Null
               THEN [st EXCEPT ![CacheOf(task.cls)] =
                         setCachedValue(@, CacheKey(task.cls, task.id),
                                        task.res, MainTtlOf(task.cls))]
               ELSE st,
     task |-> [task EXCEPT !.st = "returned", !.p = NoPromise]]

\* A station feature of main.ts: properties.stationIdentifier and
\* properties.forecast (null when absent) and the geometry: "point" (finite
\* coordinates), "nonfinite" (coordinates that are not finite numbers),
\* "none" (no geometry) or "malformed" (coordinates that cannot be
\* destructured).
MainFeature(id, forecast, geometry) ==
    [stationIdentifier |-> id, forecast |-> forecast, geometry |-> geometry,
     latitude |-> 12, longitude |-> 7]

MainFeatures ==
    {MainFeature(id, forecast, geometry) :
        id \in {Null, "S1"},
        forecast \in {Null, "", ForecastUrlOf("9,9")},
        geometry \in {"point", "nonfinite", "none", "malformed"}}

\* Number.isFinite(latitude) && Number.isFinite(longitude)
finiteCoordinates(f) == f.geometry = "point"

\* A call of a request function, as the branch makes it.
CallOf(fn, argument) == [fn |-> fn, argument |-> argument]

\* Mutation: the forecast URL of the feature is not looked at.
mainForecastByCoordinates(st, nt, held, f) ==
    IF finiteCoordinates(f)
    THEN [r |-> mainRequestDataCall(st, nt, held, "points",
                    CoordinateKey(f.latitude, f.longitude)),
          calls |-> <<CallOf("requestForecast",
                             CoordinateKey(f.latitude, f.longitude)),
                      CallOf("requestPoints",
                             CoordinateKey(f.latitude, f.longitude))>>]
    ELSE [r |-> [state |-> st, net |-> nt, task |-> ReturnedNull],
          calls |-> << >>]

\* The second member of the branch's Promise.all: the forecast by the URL
\* the feature carries; without one, the forecast of its finite coordinates
\* (requestForecast starts with requestPoints); else a promise resolved to
\* null.
mainForecast(st, nt, held, f) ==
    IF truthy(f.forecast)
    THEN [r |-> mainRequestDataCall(st, nt, held, "forecast", f.forecast),
          calls |-> <<CallOf("requestForecastByUrl", f.forecast)>>]
    ELSE IF finiteCoordinates(f)
         THEN [r |-> mainRequestDataCall(st, nt, held, "points",
                         CoordinateKey(f.latitude, f.longitude)),
               calls |-> <<CallOf("requestForecast",
                                  CoordinateKey(f.latitude, f.longitude)),
                           CallOf("requestPoints",
                                  CoordinateKey(f.latitude, f.longitude))>>]
         ELSE [r |-> [state |-> st, net |-> nt, task |-> ReturnedNull],
               calls |-> << >>]

\* The branch of one feature up to its Promise.all; o is the call of
\* requestLatestObservations.
mainBranchWaits(f, o, held) ==
    LET g == mainForecast(o.state, o.net, held \cup {o.task.p}, f)
    IN [state |-> g.r.state, net |-> g.r.net,
        branch |-> [kind |-> "main", feature |-> f, pc |-> "wait",
                    obs |-> o.task, fc |-> g.r.task,
                    calls |-> <<CallOf("requestLatestObservations",
                                       f.stationIdentifier)>> \o g.calls]]

\* The branch from its start: destructuring coordinates that are not
\* iterable throws, and the catch block logs the failure.
mainStartBranch(st, nt, f) ==
    IF f.geometry = "malformed"
    THEN [state |-> st, net |-> nt,
          branch |-> [kind |-> "main", feature |-> f, pc |-> "caught",
                      obs |-> IdleTask, fc |-> IdleTask, calls |-> << >>]]
    ELSE mainBranchWaits(f,
             mainRequestDataCall(st, nt, {}, "observations",
                                 f.stationIdentifier), {})

\* requestForecast after `await requestPoints(...)`: null without a forecast
\* URL in the points document, else requestForecastByUrl for that URL.
mainRequestForecastContinues(st, nt, held, points) ==
    IF ~truthy(forecastUrl(points))
    THEN [r |-> [state |-> st, net |-> nt, task |-> ReturnedNull],
          calls |-> << >>]
    ELSE [r |-> mainRequestDataCall(st, nt, held, "forecast",
                                    forecastUrl(points)),
          calls |-> <<CallOf("requestForecastByUrl", forecastUrl(points))>>]

MainPromises == {merge.obs.p, merge.fc.p} \ {NoPromise}
MainQuiescent == merge.obs.st # "resumable" /\ merge.fc.st # "resumable"

InitMain ==
    /\ InitProgram
    /\ merge \in {[kind |-> "main", feature |-> f, pc |-> "new",
                   obs |-> IdleTask, fc |-> IdleTask, calls |-> << >>] :
                  f \in MainFeatures}

\* The callback of features.map runs for the feature.
MainBranch ==
    /\ merge.kind = "main" /\ merge.pc = "new"
    /\ LET b == mainStartBranch(state, net, merge.feature)
       IN /\ state' = b.state
          /\ net' = b.net
          /\ merge' = b.branch
    /\ UNCHANGED <<now, callers, cacheVars, runVars>>

\* The underlying request of promise p settles.
MainSettle(p, outcome) ==
    /\ merge.kind = "main" /\ merge.pc = "wait"
    /\ MainQuiescent
    /\ p \in DOMAIN net
    /\ LET r == mainRequestSettle(state, net[p], outcome)
       IN /\ state' = r.state
          /\ merge' = [merge EXCEPT !.obs = Deliver(@, p, r.result),
                                    !.fc = Deliver(@, p, r.result)]
    /\ net' = MapDelete(net, p)
    /\ UNCHANGED <<now, callers, cacheVars, runVars>>

\* The continuation of requestLatestObservations runs.
MainObservationsResume ==
    /\ merge.kind = "main" /\ merge.pc = "wait"
    /\ merge.obs.st = "resumable"
    /\ LET r == mainRequestDataResume(state, merge.obs)
       IN /\ state' = r.state
          /\ merge' = [merge EXCEPT !.obs = r.task]
    /\ UNCHANGED <<now, net, callers, cacheVars, runVars>>

\* The continuation of the forecast side runs: requestForecastByUrl returns,
\* or requestPoints returns and requestForecast goes on with the forecast
\* URL of the points document.
MainForecastResume ==
    /\ merge.kind = "main" /\ merge.pc = "wait"
    /\ merge.fc.st = "resumable"
    /\ LET r == mainRequestDataResume(state, merge.fc)
           g == mainRequestForecastContinues(r.state, net, MainPromises,
                                             r.task)
       IN IF merge.fc.cls = "points"
          THEN /\ state' = g.r.state
               /\ net' = g.r.net
               /\ merge' = [merge EXCEPT !.fc = g.r.task,
                                         !.calls = @ \o g.calls]
          ELSE /\ state' = r.state
               /\ net' = net
               /\ merge' = [merge EXCEPT !.fc = r.task]
    /\ UNCHANGED <<now, callers, cacheVars, runVars>>

\* Promise.all has both results: the feature's properties are replaced by
\* the flattened merge.
MainMerge ==
    /\ merge.kind = "main" /\ merge.pc = "wait"
    /\ merge.obs.st = "returned" /\ merge.fc.st = "returned"
    /\ merge' = [merge EXCEPT !.pc = "merged"]
    /\ UNCHANGED <<state, now, net, callers, cacheVars, runVars>>

NextMain ==
    \/ MainBranch
    \/ \E p \in PromiseIds, o \in Outcomes : MainSettle(p, o)
    \/ MainObservationsResume
    \/ MainForecastResume
    \/ MainMerge

SpecMain == InitMain /\ [][NextMain]_vars

\* ------------------------------- SpecErrors: isNotFoundError on its own
\* An error as isNotFoundError reads it: the four status members and the
\* message, each a JS value, JsNull when the member (or the object on the
\* way to it, or the error itself) is null or undefined.
ErrorOf(detailsHttpStatus, responseStatus, status, httpStatus, message) ==
    [detailsHttpStatus |-> detailsHttpStatus,
     responseStatus |-> responseStatus,
     status |-> status, httpStatus |-> httpStatus, message |-> message]

\* a ?? b
nullish(a, b) == IF a = JsNull THEN b ELSE a

Digits == {"0", "1", "2", "3", "4", "5", "6", "7", "8", "9"}
DigitValue(c) == CHOOSE d \in 0..9 : ToString(d) = c

\* The value of a string of decimal digits.
RECURSIVE DecimalValue(_)
DecimalValue(s) ==
    IF Len(s) = 0
    THEN 0
    ELSE 10 * DecimalValue(SubSeq(s, 1, Len(s) - 1))
         + DigitValue(SubSeq(s, Len(s), Len(s)))

\* Number(value), as the set holding the number, empty for NaN: a number is
\* itself, a string of digits its value, the empty string 0, any other
\* string of the model NaN, as is undefined.
Number(value) ==
    CASE value.t = "number" -> {value.n}
      [] value.t = "boolean" -> {IF value.b THEN 1 ELSE 0}
      [] value.t = "string" ->
            IF \A i \in 1..Len(value.s) : SubSeq(value.s, i, i) \in Digits
            THEN {DecimalValue(value.s)}
            ELSE {}
      [] OTHER -> {}

\* The characters \b counts as part of a word.
WordCharacters ==
    Digits \cup {"_"} \cup
    {"a", "b", "c", "d", "e", "f", "g", "h", "i", "j", "k", "l", "m",
     "n", "o", "p", "q", "r", "s", "t", "u", "v", "w", "x", "y", "z",
     "A", "B", "C", "D", "E", "F", "G", "H", "I", "J", "K", "L", "M",
     "N", "O", "P", "Q", "R", "S", "T", "U", "V", "W", "X", "Y", "Z"}

\* /\b404\b/.test(s): 404 with no word character next to it on either side.
matches404(s) ==
    \E i \in 1..(Len(s) - 2) :
        /\ SubSeq(s, i, i + 2) = "404"
        /\ i = 1 \/ SubSeq(s, i - 1, i - 1) \notin WordCharacters
        /\ i + 2 = Len(s) \/ SubSeq(s, i + 3, i + 3) \notin WordCharacters

\* The status isNotFoundError looks at: the first of the four members that
\* is neither null nor undefined.
statusOf(error) ==
    nullish(error.detailsHttpStatus,
        nullish(error.responseStatus,
            nullish(error.status, error.httpStatus)))

isNotFoundError(error) ==
    IF Number(statusOf(error)) = {404}
    THEN TRUE
    ELSE matches404(String(nullish(error.message, JsString(""))))

\* The status members and messages of the errors SpecErrors draws from.
StatusValues == {JsNull, JsNumber(404), JsNumber(500), JsString("404")}
Messages ==
    {JsNull, JsString("Request failed"), JsString("HTTP 404: Not Found"),
     JsString("station 14045"), JsNumber(404)}
Errors ==
    {ErrorOf(d, r, s, h, m) :
        d \in StatusValues, r \in StatusValues, s \in StatusValues,
        h \in StatusValues, m \in Messages}

InitErrors ==
    /\ InitProgram
    /\ merge \in {[kind |-> "error", error |-> e] : e \in Errors}

\* The catch block of executeRequest asks isNotFoundError about the error.
IsNotFoundErrorCall ==
    /\ merge.kind = "error"
    /\ merge' = [kind |-> "classified", error |-> merge.error,
                 result |-> isNotFoundError(merge.error)]
    /\ UNCHANGED <<state, now, net, callers, cacheVars, runVars>>

NextErrors == IsNotFoundErrorCall

SpecErrors == InitErrors /\ [][NextErrors]_vars

\* ------------------- SpecHeap: cached responses and the clones made of them
\* Objects live in a heap (a sequence; an address is an index): a response
\* document holds the addresses of its features and of its properties
\* object, a feature the address of its properties object, a properties
\* object its entries.  The caches hold the addresses of the documents.
PropertiesObject(entries) == [t |-> "properties", entries |-> entries]
FeatureObject(properties) == [t |-> "feature", properties |-> properties]
Document(features, properties) ==
    [t |-> "document", features |-> features, properties |-> properties]

\* Mutation: no clone is made, the cached document itself is worked on.
structuredCloneAlias(h, a) == [heap |-> h, root |-> a]

\* structuredClone of a properties object, of a feature, of a document: a
\* deep copy at fresh addresses.
cloneProperties(h, a) ==
    [heap |-> Append(h, h[a]), root |-> Len(h) + 1]

cloneFeature(h, a) ==
    LET p == cloneProperties(h, h[a].properties)
    IN [heap |-> Append(p.heap, FeatureObject(p.root)),
        root |-> Len(p.heap) + 1]

RECURSIVE cloneFeatures(_, _, _)
cloneFeatures(h, features, copies) ==
    IF features = << >>
    THEN [heap |-> h, roots |-> copies]
    ELSE LET c == cloneFeature(h, Head(features))
         IN cloneFeatures(c.heap, Tail(features), Append(copies, c.root))

structuredClone(h, a) ==
    LET fs == cloneFeatures(h, h[a].features, << >>)
        ps == IF h[a].properties = 0
              THEN [heap |-> fs.heap, root |-> 0]
              ELSE cloneProperties(fs.heap, h[a].properties)
    IN [heap |-> Append(ps.heap, Document(fs.roots, ps.root)),
        root |-> Len(ps.heap) + 1]

\* object.properties = entries: a new properties object is assigned to the
\* object at address a.
assignProperties(h, a, entries) ==
    [Append(h, PropertiesObject(entries)) EXCEPT
        ![a].properties = Len(h) + 1]

\* response?.data?.properties of the document at address a
propertiesAt(h, a) == h[h[a].properties].entries

\* The cached documents: a station list of two features (the second without
\* stationIdentifier), the latest observation and the forecast.
StationsAddress == 5
ObservationAddress == 7
ForecastAddress == 9
CachedHeap(original, observation, forecast) ==
    << PropertiesObject(Identified(original)), FeatureObject(1),
       PropertiesObject(original), FeatureObject(3),
       Document(<<2, 4>>, 0),
       PropertiesObject(observation), Document(<< >>, 6),
       PropertiesObject(forecast), Document(<< >>, 8) >>

HeapObjects(src) == {o \in Objects(src) : Len(o) <= 1}

InitHeap ==
    /\ InitProgram
    /\ merge \in {[kind |-> "heap",
                   heap |-> CachedHeap(o, b, f),
                   cached |-> CachedHeap(o, b, f),
                   run |-> "start", clone |-> 0, merged |-> {},
                   click |-> "start", forecastClone |-> 0] :
                  o \in HeapObjects("o"), b \in HeapObjects("b"),
                  f \in HeapObjects("f")}

\* The orchestrator clones the cached station list.
RunClone ==
    /\ merge.kind = "heap" /\ merge.run = "start"
    /\ LET c == structuredClone(merge.heap, StationsAddress)
       IN merge' = [merge EXCEPT !.heap = c.heap, !.clone = c.root,
                                 !.run = "fanout"]
    /\ UNCHANGED <<state, now, net, callers, cacheVars, runVars>>

\* The branch of feature i ends: a feature without stationIdentifier is left
\* alone, any other gets the flattened merge of its properties with those
\* of the cached observation and forecast.
HeapBranchMerge(i) ==
    /\ merge.kind = "heap" /\ merge.run = "fanout"
    /\ i \in DOMAIN merge.heap[merge.clone].features
    /\ i \notin merge.merged
    /\ LET a == merge.heap[merge.clone].features[i]
       IN merge' =
             [merge EXCEPT
                !.merged = @ \cup {i},
                !.heap =
                   IF hasStationIdentifier(propertiesAt(merge.heap, a))
                   THEN assignProperties(merge.heap, a,
                            processProperties(
                                spread(propertiesAt(merge.heap, a),
                                       propertiesAt(merge.heap,
                                                    ObservationAddress),
                                       propertiesAt(merge.heap,
                                                    ForecastAddress))))
                   ELSE @]
    /\ UNCHANGED <<state, now, net, callers, cacheVars, runVars>>

\* Every branch has ended: the clone is serialized.
RunSerialize ==
    /\ merge.kind = "heap" /\ merge.run = "fanout"
    /\ merge.merged = DOMAIN merge.heap[merge.clone].features
    /\ merge' = [merge EXCEPT !.run = "done"]
    /\ UNCHANGED <<state, now, net, callers, cacheVars, runVars>>

\* The click listener with the cached forecast: it clones the document and
\* assigns the flattened properties of the response to the clone.
ClickForecast ==
    /\ merge.kind = "heap" /\ merge.click = "start"
    /\ LET c == structuredClone(merge.heap, ForecastAddress)
       IN merge' =
             [merge EXCEPT
                !.click = "done",
                !.forecastClone = c.root,
                !.heap = assignProperties(c.heap, c.root,
                             processProperties(
                                 propertiesAt(merge.heap,
                                              ForecastAddress)))]
    /\ UNCHANGED <<state, now, net, callers, cacheVars, runVars>>

NextHeap ==
    \/ RunClone
    \/ \E i \in 1..2 : HeapBranchMerge(i)
    \/ RunSerialize
    \/ ClickForecast

SpecHeap == InitHeap /\ [][NextHeap]_vars

\* ---------- SpecLive: the orchestrator with its icon probes, under fairness
\* The calls of createObservationStationsLayer as in SpecRun, with the icon
\* stage played by isHttp200 and checkIconStatus: the renderer of a station
\* list has one unique value, the icon URL below.  The clock stands still
\* while a request is pending (a HEAD request that is aborted settles like
\* any other).  Two calls at most overlap.
LiveCenters == {<<12, 7>>, <<26, 7>>}
LiveIconUrl == "https://b/i.png"
\* How a data request and a HEAD request end in SpecLive.
LiveOutcomes == {"full", "error", "invalid"}
LiveProbeOutcomes == {"200", "abort"}

\* net holds the cache key of a pending data request and, of a pending HEAD
\* request, the probe as a tuple.
ProbeEntry(probe) == <<"icon", probe.url, probe.at, probe.outcome>>
ProbeOf(entry) == [url |-> entry[2], at |-> entry[3], outcome |-> entry[4]]
IsDataRequest(p) == net[p][1] # "icon"
withProbeEntries(old, new) ==
    [p \in DOMAIN new |->
        IF p \in DOMAIN old THEN old[p] ELSE ProbeEntry(new[p])]

\* The underlying request of promise p settles.
LiveSettle(p, outcome) ==
    /\ p \in DOMAIN net
    /\ IsDataRequest(p)
    /\ SettleRun(p, outcome)

\* createRenderer settles: it rejects, or fulfils without unique values, or
\* with the one icon URL, for which isHttp200 is called.
LiveRendererSettles(r, result, outcome) ==
    IF result # "icons"
    THEN RendererSettles(r, result)
    ELSE /\ CallersQuiescent
         /\ RunsQuiescent
         /\ runs[r].pc = "renderer"
         /\ LET c == isHttp200(state, net, Held, LiveIconUrl, outcome)
            IN /\ state' = c.state
               /\ net' = withProbeEntries(net, c.net)
               /\ runs' = [runs EXCEPT ![r].pc = "icons", ![r].task = c.task]
         /\ UNCHANGED <<now, callers, cacheVars, propVars, mapLayers,
                        blobUrls, lastEventKey>>

\* The HEAD request of promise p settles (response, error or abort): the
\* calls that await the probe get their continuation queued.
LiveIconSettle(p) ==
    /\ CallersQuiescent
    /\ RunsQuiescent
    /\ p \in DOMAIN net
    /\ ~IsDataRequest(p)
    /\ LET s == checkIconStatusSettle(state, ProbeOf(net[p]))
       IN /\ state' = s.state
          /\ runs' = [q \in DOMAIN runs |->
                         [runs[q] EXCEPT !.task = Deliver(@, p, s.result)]]
    /\ net' = MapDelete(net, p)
    /\ UNCHANGED <<now, callers, cacheVars, propVars, mapLayers, blobUrls,
                   lastEventKey>>

\* The Promise.all over the unique values of run r is fulfilled: the layer
\* is published.
LiveIconsJoin(r) ==
    /\ runs[r].task.st \in {"resumable", "returned"}
    /\ IconsSettle(r)

\* The view comes to rest while at most one call is under way.
LiveEvent(latitude, longitude) ==
    /\ Cardinality(RunsInProgress) <= 1
    /\ StationaryEvent(latitude, longitude)

\* A step of the network, of createRenderer or of a queued continuation.
LiveProgress ==
    \/ \E p \in PromiseIds, o \in LiveOutcomes : LiveSettle(p, o)
    \/ \E r \in 1..MaxRuns : RunAfterPoints(r)
    \/ \E r \in 1..MaxRuns : RunAfterStations(r)
    \/ \E r \in 1..MaxRuns, i \in BranchIndexes : BranchAfterForecastPoints(r, i)
    \/ \E r \in 1..MaxRuns, i \in BranchIndexes : BranchMerge(r, i)
    \/ \E r \in 1..MaxRuns : RunAfterFanout(r)
    \/ \E r \in 1..MaxRuns, x \in RendererResults, o \in LiveProbeOutcomes :
          LiveRendererSettles(r, x, o)
    \/ \E p \in PromiseIds : LiveIconSettle(p)
    \/ \E r \in 1..MaxRuns : LiveIconsJoin(r)

\* ENABLED LiveProgress, written out: a request is pending, a continuation
\* of a call is queued, a call waits for createRenderer, or the probe of a
\* call has come back.
LiveEnabled ==
    \/ net # << >>
    \/ \E r \in DOMAIN runs :
          \/ RunEnabled(r)
          \/ runs[r].pc = "renderer"
          \/ runs[r].pc = "icons"
                /\ runs[r].task.st \in {"resumable", "returned"}

NextLive ==
    \/ \E c \in LiveCenters : LiveEvent(c[1], c[2])
    \/ LiveProgress

\* Every network call settles (the data requests by response, error or
\* timeout, the HEAD requests by response, error or abort), createRenderer
\* settles, and a queued continuation runs: while such a step is possible,
\* one is taken (weak fairness of LiveProgress).
LiveFairness == []<>(~LiveEnabled) \/ []<><<LiveProgress>>_vars

SpecLive == Init /\ [][NextLive]_vars /\ LiveFairness

\* ------------------------------------ SpecClick: the forecast-layer clicks
\* One invocation of the arcgisViewClick listener, kept in a slot of runs.
\*   pc = "idle"           not started
\*        "hitTest"        at `await viewElement.hitTest`
\*        "clickPoints"    requestForecast at `await requestPoints`
\*        "clickForecast"  at `await requestForecast`, in requestForecastByUrl
\*        "query"          at `await state.forecastLayer.queryFeatures()`
\*        "done"           returned
\* point is the clicked map point.
ClickRun(key, latitude, longitude) ==
    [pc |-> "hitTest", key |-> key, task |-> IdleTask, feats |-> << >>,
     outcome |-> "none", point |-> <<latitude, longitude>>]
ClickPoints == {<<12, 7>>, <<26, 7>>, <<0, 7>>}
ForecastLayerOf(r) == "forecast:" \o ToString(r)
ForecastBlobUrlOf(r) == "blob:forecast:" \o ToString(r)

\* featureElement.graphic
NoGraphic == [kind |-> "click", graphic |-> Null]

\* viewElement.map?.layers.remove(state.forecastLayer), if there is one
removedForecastLayer(layers, st) ==
    IF st.forecastLayer # Null THEN layers \ {st.forecastLayer} ELSE layers

\* URL.revokeObjectURL(state.forecastLayerUrl), if there is one
revokePreviousForecast(urls, st) ==
    IF st.forecastLayerUrl # ""
    THEN MapDelete(urls, st.forecastLayerUrl)
    ELSE urls

\* A queued continuation of a click.
ClickContinues(r) ==
    /\ runs[r].pc \in {"clickPoints", "clickForecast"}
    /\ runs[r].task.st = "returned"
ClicksQuiescent == \A r \in DOMAIN runs : ~ClickContinues(r)
FirstClick(r) == \A q \in 1..(r - 1) : ~ClickContinues(q)

InitClick ==
    /\ InitProgram
    /\ merge = NoGraphic

\* arcgisViewChange while the view is moving (viewElement.stationary is
\* false): removeExistingForecastLayer and nothing else.
ViewChange ==
    /\ ClicksQuiescent
    /\ state' = removeExistingForecastLayer(state)
    /\ mapLayers' = removedForecastLayer(mapLayers, state)
    /\ merge' = NoGraphic
    /\ UNCHANGED <<now, net, callers, cacheVars, runs, blobUrls, lastEventKey>>

\* arcgisViewClick at (latitude, longitude), up to `await hitTest`.
Click(latitude, longitude) ==
    /\ ClicksQuiescent
    /\ \E r \in DOMAIN runs :
          /\ runs[r].pc = "idle"
          /\ \A q \in 1..(r - 1) : runs[q].pc # "idle"
          /\ runs' = [runs EXCEPT ![r] =
                ClickRun(CoordinateKey(latitude, longitude),
                         latitude, longitude)]
    /\ state' = removeExistingForecastLayer(state)
    /\ mapLayers' = removedForecastLayer(mapLayers, state)
    /\ merge' = NoGraphic
    /\ UNCHANGED <<now, net, callers, cacheVars, blobUrls, lastEventKey>>

\* hitTest settles: a hit on a station, or a map point without a truthy
\* latitude and longitude, ends the listener; otherwise requestForecast runs
\* up to `await requestPoints`.
HitTestSettles(r, hit) ==
    /\ ClicksQuiescent
    /\ runs[r].pc = "hitTest"
    /\ IF hit \/ runs[r].point[1] = 0 \/ runs[r].point[2] = 0
       THEN /\ runs' = [runs EXCEPT ![r] = finishRun(@, "ended")]
            /\ UNCHANGED <<state, net>>
       ELSE LET c == requestData(state, net, Held, "points", runs[r].key)
            IN /\ state' = c.state
               /\ net' = c.net
               /\ runs' = [runs EXCEPT ![r] =
                     [@ EXCEPT !.pc = "clickPoints", !.task = c.task]]
    /\ UNCHANGED <<now, callers, cacheVars, propVars, mapLayers, blobUrls, lastEventKey>>

\* The underlying request of promise p settles.
ClickSettle(p, outcome) ==
    /\ ClicksQuiescent
    /\ SettleRun(p, outcome)

\* requestForecast after `await requestPoints`: without a forecast URL it
\* returns null and the listener returns.
ClickAfterPoints(r) ==
    /\ runs[r].pc = "clickPoints"
    /\ ClickContinues(r)
    /\ FirstClick(r)
    /\ LET url == forecastUrl(runs[r].task)
       IN IF url = Null
          THEN /\ runs' = [runs EXCEPT ![r] = finishRun(@, "ended")]
               /\ UNCHANGED <<state, net>>
          ELSE LET c == requestData(state, net, Held, "forecast", url)
               IN /\ state' = c.state
                  /\ net' = c.net
                  /\ runs' = [runs EXCEPT ![r] =
                        [@ EXCEPT !.pc = "clickForecast", !.task = c.task]]
    /\ UNCHANGED <<now, callers, cacheVars, propVars, mapLayers, blobUrls, lastEventKey>>

\* The listener after `await requestForecast`: without forecast properties
\* it returns; otherwise the blob is built, the previous forecast URL
\* revoked, and the new layer stored in state.forecastLayer and added to the
\* map.
ClickAfterForecast(r) ==
    /\ runs[r].pc = "clickForecast"
    /\ ClickContinues(r)
    /\ FirstClick(r)
    /\ IF runs[r].task.res # "full"
       THEN /\ runs' = [runs EXCEPT ![r] = finishRun(@, "ended")]
            /\ UNCHANGED <<state, mapLayers, blobUrls>>
       ELSE /\ blobUrls' = revokePreviousForecast(
                               MapSet(blobUrls, ForecastBlobUrlOf(r),
                                      runs[r].task.id),
                               state)
            /\ state' = [state EXCEPT
                           !.forecastLayerUrl = ForecastBlobUrlOf(r),
                           !.forecastLayer = ForecastLayerOf(r)]
            /\ mapLayers' = mapLayers \cup {ForecastLayerOf(r)}
            /\ runs' = [runs EXCEPT ![r] =
                  [@ EXCEPT !.pc = "query", !.task = IdleTask]]
    /\ UNCHANGED <<now, net, callers, cacheVars, propVars, lastEventKey>>

\* queryFeatures of the click's layer settles: its first graphic goes to the
\* Feature element.
QuerySettles(r) ==
    /\ ClicksQuiescent
    /\ runs[r].pc = "query"
    /\ merge' = [kind |-> "click", graphic |-> ForecastLayerOf(r)]
    /\ runs' = [runs EXCEPT ![r] = finishRun(@, "published")]
    /\ UNCHANGED <<state, now, net, callers, cacheVars, mapLayers, blobUrls, lastEventKey>>

NextClick ==
    \/ ViewChange
    \/ \E c \in ClickPoints : Click(c[1], c[2])
    \/ \E r \in 1..MaxRuns, hit \in BOOLEAN : HitTestSettles(r, hit)
    \/ \E p \in PromiseIds, o \in Outcomes : ClickSettle(p, o)
    \/ \E r \in 1..MaxRuns : ClickAfterPoints(r)
    \/ \E r \in 1..MaxRuns : ClickAfterForecast(r)
    \/ \E r \in 1..MaxRuns : QuerySettles(r)

SpecClick == InitClick /\ [][NextClick]_vars

\* ===================================================== claims under Spec
TaskKey(task) == CacheKey(task.cls, task.id)

\* A failed-request marker for key that has not expired.
LiveMarker(key) ==
    /\ key \in DOMAIN state.failedRequestCache
    /\ now < state.failedRequestCache[key].expiresAt

\* Keys of the underlying requests that are pending.
PendingKeys == {net[p] : p \in DOMAIN net}

\* C1: callers that ask for the same key while a call for it is pending
\* share one underlying request: never two pending requests for one key,
\* every waiting caller holds the promise registered for its key, and the
\* callers resumed by one settlement all hold the same result.
C1_OneRequestSharedResult ==
    /\ \A p, q \in DOMAIN net : net[p] = net[q] => p = q
    /\ \A c \in DOMAIN callers :
          callers[c].st = "await" =>
             /\ callers[c].p \in DOMAIN net
             /\ net[callers[c].p] = TaskKey(callers[c])
             /\ TaskKey(callers[c]) \in DOMAIN state.inFlightRequests
             /\ state.inFlightRequests[TaskKey(callers[c])] = callers[c].p
    /\ \A c, d \in DOMAIN callers :
          (/\ callers[c].st \in {"await", "resumable"}
           /\ callers[d].st \in {"await", "resumable"}
           /\ callers[c].p # NoPromise
           /\ callers[d].p # NoPromise
           /\ TaskKey(callers[c]) = TaskKey(callers[d]))
          => (/\ callers[c].p = callers[d].p
              /\ callers[c].st = callers[d].st
              /\ callers[c].res = callers[d].res)

\* C1 witness: every caller has been resumed by the settlement of the same
\* promise, with the same response.
C1_Witness ==
    /\ \A c \in DOMAIN callers :
          /\ callers[c].st = "resumable"
          /\ callers[c].p = callers[1].p
          /\ callers[c].res = "full"
    /\ callers[1].p # NoPromise

\* C2: every key registered in state.inFlightRequests belongs to a call
\* whose underlying request is still pending; a settled call, whatever its
\* outcome, leaves no registration behind.
C2_RegisteredIsPending ==
    \A k \in DOMAIN state.inFlightRequests :
        /\ state.inFlightRequests[k] \in DOMAIN net
        /\ net[state.inFlightRequests[k]] = k

\* C2 witness: a call has just failed (its callers are resumed with null)
\* and its key is not registered any more.
C2_Witness ==
    \E c \in DOMAIN callers :
        /\ callers[c].st = "resumable"
        /\ callers[c].p # NoPromise
        /\ callers[c].res = Null
        /\ TaskKey(callers[c]) \notin DOMAIN state.inFlightRequests

\* C3: while a failed-request marker for a key is live, no underlying
\* request for that key is pending or registered, no caller waits for one,
\* and whatever a caller for that key is handed is null.
C3_MarkerSuppresses ==
    \A k \in CallerKeys :
        LiveMarker(k) =>
            /\ k \notin PendingKeys
            /\ k \notin DOMAIN state.inFlightRequests
            /\ \A c \in DOMAIN callers :
                  (callers[c].st # "idle" /\ TaskKey(callers[c]) = k) =>
                      /\ callers[c].st # "await"
                      /\ callers[c].res = Null

\* C3 witness: a call made inside the window, after the failure, was
\* answered null without a promise of an underlying request.
C3_Witness ==
    \E c \in DOMAIN callers :
        /\ callers[c].st = "resumable"
        /\ callers[c].p = NoPromise
        /\ LiveMarker(TaskKey(callers[c]))
        /\ now > state.failedRequestCache[TaskKey(callers[c])].expiresAt
                    - failedRequestCacheTimeToLive
        /\ net = <<>>

\* C4 (as claimed): when the underlying request fails with an error that is
\* not a 404, no failed-request marker is recorded for the key.
C4_NoMarkerAfterOtherError ==
    [][\A p \in DOMAIN net :
          Settle(p, "error") => net[p] \notin DOMAIN state'.failedRequestCache]_vars

\* ================================================ claims under SpecCache
\* C5: a value set at t0 with TTL T is what getCachedValue returns at every
\* time before t0 + T, and from t0 + T on (that instant included) the key
\* is reported absent; a key never set is absent.
C5_VisibleUntilExpiry ==
    lastGet # NoGet =>
        IF lastGet.key \in DOMAIN stored
        THEN LET e == stored[lastGet.key]
             IN /\ lastGet.at < e.at + e.ttl => lastGet.value = e.value
                /\ lastGet.at >= e.at + e.ttl => lastGet.value = Null
        ELSE lastGet.value = Null

\* C5 witness: a get at the expiry instant itself, of a value set after the
\* clock had moved, reported absent.
C5_Witness ==
    /\ lastGet # NoGet
    /\ lastGet.key \in DOMAIN stored
    /\ stored[lastGet.key].at > 0
    /\ lastGet.at = stored[lastGet.key].at + stored[lastGet.key].ttl
    /\ lastGet.value = Null

\* ================================================== claims under SpecRun
\* C6 (as claimed): no two calls of createObservationStationsLayer for the
\* same normalized center key are in progress at once.
C6_NoOverlappingRuns ==
    \A r1, r2 \in RunsInProgress :
        runs[r1].key = runs[r2].key => r1 = r2

\* C7 (as claimed): a stationary event with the key of the stationary event
\* before it issues no underlying request, whatever became of the call the
\* earlier event started.
C7_RepeatedKeyNoRequest ==
    [][\A c \in Centers :
          (StationaryEvent(c[1], c[2])
              /\ lastEventKey = CoordinateKey(c[1], c[2]))
          => net' = net]_vars

\* C7 (amended): a stationary event whose key is the last published key or
\* the in-flight key starts no call and issues no underlying request.
C7_GuardedKeyNoRequest ==
    [][\A c \in Centers :
          (StationaryEvent(c[1], c[2])
              /\ CoordinateKey(c[1], c[2]) \in
                    {state.lastObservationStationsKey,
                     state.inFlightObservationStationsKey})
          => UNCHANGED <<net, runs>>]_vars

\* C7 witness: the latest event was for the published key while the call
\* for another key was in flight: it did not get past the guard.
C7_Witness ==
    /\ lastEventKey = state.lastObservationStationsKey
    /\ state.inFlightObservationStationsKey \notin {"", lastEventKey}
    /\ \E r \in RunsInProgress :
          runs[r].key = state.inFlightObservationStationsKey

\* C8 (as claimed): when a call for key K completes without publishing,
\* neither state.inFlightObservationStationsKey nor
\* state.lastObservationStationsKey is K afterwards.
C8_UnpublishedEndAllowsRetry ==
    [][\A r \in DOMAIN runs :
          (runs[r].pc # "done" /\ runs'[r].pc = "done"
              /\ runs'[r].outcome # "published")
          => /\ state'.inFlightObservationStationsKey # runs[r].key
             /\ state'.lastObservationStationsKey # runs[r].key]_vars

C10_BranchFailureIsolated ==
    [][\A r \in DOMAIN runs :
          /\ \A i \in DOMAIN runs'[r].feats :
                runs'[r].feats[i].pc # "rejected"
          /\ (runs[r].pc = "fanout" /\ runs'[r].pc # "fanout")
             => /\ runs'[r].pc = "renderer"
                /\ BlobUrlOf(r) \in DOMAIN blobUrls'
                /\ DOMAIN blobUrls'[BlobUrlOf(r)] = DOMAIN runs[r].feats
                /\ \A i \in DOMAIN runs[r].feats :
                      LET b == runs[r].feats[i]
                          out == blobUrls'[BlobUrlOf(r)][i]
                      IN /\ out.stationIdentifier = b.f.stationIdentifier
                         /\ out.props =
                              IF \/ b.f.geometry = "malformed"
                                 \/ b.f.stationIdentifier = Null
                              THEN OriginalProps
                              ELSE [merged |-> TRUE,
                                    observation |->
                                       IF b.obs.res = "full"
                                       THEN b.f.stationIdentifier ELSE Null,
                                    forecast |->
                                       IF b.fc.res = "full"
                                       THEN ForecastUrlOf(CoordinateKey(
                                                b.f.latitude, b.f.longitude))
                                       ELSE Null]]_vars

\* C11: the step of a call that serializes its collection is taken only when
\* every branch of the call's fan-out has settled: none is waiting for its
\* requests, none has a request pending, and none is rejected.
C11_SerializedAfterFullJoin ==
    [][\A r \in DOMAIN runs :
          (/\ runs[r].pc = "fanout"
           /\ \/ runs'[r].pc \in {"renderer", "icons"}
              \/ (BlobUrlOf(r) \in DOMAIN blobUrls'
                    /\ BlobUrlOf(r) \notin DOMAIN blobUrls))
          => \A i \in DOMAIN runs[r].feats :
                /\ runs[r].feats[i].pc = "done"
                /\ runs[r].feats[i].obs.st = "returned"
                /\ runs[r].feats[i].fc.st = "returned"
                /\ runs[r].feats[i].obs.p \notin DOMAIN net
                /\ runs[r].feats[i].fc.p \notin DOMAIN net]_vars

\* C11 witness: a call has serialized a collection whose first two stations
\* went through their requests (observation and forecast of the first, the
\* observation of the second) and waits for its renderer.
C11_Witness ==
    \E r \in DOMAIN runs :
        /\ runs[r].pc = "renderer"
        /\ BlobUrlOf(r) \in DOMAIN blobUrls
        /\ Len(blobUrls[BlobUrlOf(r)]) = 4
        /\ blobUrls[BlobUrlOf(r)][1].props.observation = "S1"
        /\ blobUrls[BlobUrlOf(r)][1].props.forecast # Null
        /\ blobUrls[BlobUrlOf(r)][2].props.merged

\* C12 (as claimed): no call of createObservationStationsLayer completes by
\* throwing (its promise is never rejected).
C12_CallNeverRejects ==
    \A r \in DOMAIN runs : runs[r].outcome # "threw"

\* C14: state.lastObservationStationsKey is empty or the key of the call
\* whose layer is the stations layer on the map, and it changes only in the
\* step in which a call adds its layer, to the key of that call.
C14_LastKeyIsPublishedKey ==
    /\ [](\/ state.lastObservationStationsKey = ""
          \/ \E r \in DOMAIN runs :
                /\ runs[r].outcome = "published"
                /\ runs[r].key = state.lastObservationStationsKey
                /\ state.observationStationsLayer = LayerOf(r)
                /\ LayerOf(r) \in mapLayers)
    /\ [][state'.lastObservationStationsKey
              # state.lastObservationStationsKey
          => \E r \in DOMAIN runs :
                /\ runs[r].outcome # "published"
                /\ runs'[r].outcome = "published"
                /\ state'.lastObservationStationsKey = runs[r].key
                /\ state'.observationStationsLayer = LayerOf(r)
                /\ LayerOf(r) \in mapLayers']_vars

\* C14 witness: a second call has replaced the layer and the key of a first.
C14_Witness ==
    \E r, q \in DOMAIN runs :
        /\ r # q
        /\ runs[q].outcome = "published"
        /\ runs[r].outcome = "published"
        /\ runs[r].key # runs[q].key
        /\ state.lastObservationStationsKey = runs[r].key
        /\ state.observationStationsLayer = LayerOf(r)
        /\ mapLayers = {LayerOf(r)}

\* C15: every object URL created for the stations layer and not revoked is
\* the one stored in state.observationStationsLayerUrl.
C15_OnlyCurrentUrlLive ==
    \A url \in DOMAIN blobUrls : url = state.observationStationsLayerUrl

\* C15 witness: the URL of a call that published has been revoked and the URL
\* of a later call is the stored one, not revoked.
C15_Witness ==
    \E r, q \in DOMAIN runs :
        /\ r # q
        /\ runs[r].outcome = "published"
        /\ BlobUrlOf(r) \notin DOMAIN blobUrls
        /\ state.observationStationsLayerUrl = BlobUrlOf(q)
        /\ DOMAIN blobUrls = {BlobUrlOf(q)}

\* ================================================ claims under SpecProps
\* Every value of a properties mapping is a string.
IsFlat(properties) ==
    \A i \in DOMAIN properties : properties[i].v.t = "string"

\* C13 (as claimed): every feature of a published collection has flat
\* properties: each value is a string, none a nested object or an array.
C13_PublishedPropertiesFlat ==
    merge.kind = "published" => IsFlat(merge.properties)

\* The property names of an object, and the value under one of them.
KeysOf(entries) == {entries[i].k : i \in DOMAIN entries}
ValueOf(entries, key) ==
    entries[CHOOSE i \in DOMAIN entries : entries[i].k = key].v

\* The feature's branch reached the merge of line 340.
Merged(f) == f.geometry # "malformed" /\ hasStationIdentifier(f.original)

\* The sources of the merge in spread order.
Sources(f) ==
    <<f.original, propertiesOrEmpty(f.observation),
      propertiesOrEmpty(f.forecast)>>

\* The last source in spread order that has the key.
LastSourceWith(f, key) ==
    CHOOSE n \in 1..3 :
        /\ key \in KeysOf(Sources(f)[n])
        /\ \A m \in (n + 1)..3 : key \notin KeysOf(Sources(f)[m])

\* The published properties carry the flattened form of this one property.
Carries(properties, key, value) ==
    \A name \in KeysOf(processProperties(<<Entry(key, value)>>)) :
        /\ name \in KeysOf(properties)
        /\ ValueOf(properties, name)
               = ValueOf(processProperties(<<Entry(key, value)>>), name)

\* The names a property flattens to.
FlatNames(key, value) == KeysOf(processProperties(<<Entry(key, value)>>))

\* No other property of the merged object flattens to a name of this one.
FlattensApart(f, key) ==
    LET merged == spread(Sources(f)[1], Sources(f)[2], Sources(f)[3])
    IN  \A other \in KeysOf(merged) \ {key} :
            FlatNames(other, ValueOf(merged, other))
                \cap FlatNames(key, ValueOf(merged, key)) = {}

\* The key is a property of several sources of the merge.
Shared(f, key) ==
    \E n, m \in 1..3 :
        /\ n # m
        /\ key \in KeysOf(Sources(f)[n])
        /\ key \in KeysOf(Sources(f)[m])

BothSucceeded(f) == Merged(f) /\ f.observation.ok /\ f.forecast.ok

\* C17 (as claimed): when the observation request and the forecast request of
\* a feature both succeed, its published properties contain every flattened
\* key of the observation properties and every flattened key of the forecast
\* properties.
C17_AllFlattenedKeysPublished ==
    (merge.kind = "published" /\ BothSucceeded(merge.feature))
    => KeysOf(processProperties(merge.feature.observation.properties))
           \cup KeysOf(processProperties(merge.feature.forecast.properties))
         \subseteq KeysOf(merge.properties)

\* C17 (amended): when both requests of a feature succeed, its published
\* properties contain every flattened key of the forecast properties, and
\* every flattened key of each observation property that the forecast
\* properties do not have a property of the same name for.
C17_UnshadowedKeysPublished ==
    (merge.kind = "published" /\ BothSucceeded(merge.feature))
    => /\ KeysOf(processProperties(merge.feature.forecast.properties))
            \subseteq KeysOf(merge.properties)
       /\ \A key \in KeysOf(merge.feature.observation.properties)
                        \ KeysOf(merge.feature.forecast.properties) :
             FlatNames(key,
                       ValueOf(merge.feature.observation.properties, key))
                 \subseteq KeysOf(merge.properties)

\* C17 witness: the observation has a nested object, the forecast an array,
\* and the published properties have the flattened keys of both.
C17_Witness ==
    /\ merge.kind = "published"
    /\ BothSucceeded(merge.feature)
    /\ merge.feature.observation.properties
           = <<Entry("t", JsObject(<<Entry("v", JsString("b"))>>))>>
    /\ KeysOf(processProperties(merge.feature.forecast.properties))
           = {"t_v_0", "t_v_1_0", "t_v_3"}
    /\ KeysOf(merge.properties)
           = {"stationIdentifier", "t_v", "t_v_0", "t_v_1_0", "t_v_3"}
    /\ ValueOf(merge.properties, "t_v") = JsString("b")
    /\ ValueOf(merge.properties, "t_v_3") = JsString("null")

\* ================================================ claims under SpecIcons
\* Caller c calls isHttp200 in this step.
Calls(c) == callers[c].st = "idle" /\ callers'[c].st # "idle"

\* C18: isHttp200 called with an empty URL or one that starts with neither
\* http:// nor https:// returns false at once, issues no request and changes
\* neither state.iconStatusCache nor state.inFlightIconChecks.
C18_OtherUrlsTurnedAway ==
    [][\A c \in DOMAIN callers :
          (/\ Calls(c)
           /\ \/ callers'[c].id = ""
              \/ /\ ~startsWith(callers'[c].id, "http://")
                 /\ ~startsWith(callers'[c].id, "https://"))
          => /\ callers'[c].st = "returned"
             /\ callers'[c].res = False
             /\ net' = net
             /\ state'.iconStatusCache = state.iconStatusCache
             /\ state'.inFlightIconChecks = state.inFlightIconChecks]_vars

\* C18 witness: while a probe of an http URL is pending and registered, a
\* call with a relative URL has returned false.
C18_Witness ==
    \E c \in DOMAIN callers :
        /\ callers[c].st = "returned"
        /\ callers[c].id = "icon.png"
        /\ callers[c].res = False
        /\ \E p \in DOMAIN net : net[p].url = "http://a/i.png"
        /\ DOMAIN state.inFlightIconChecks = {"http://a/i.png"}
        /\ state.iconStatusCache = << >>

\* C19: a probe that ends stores true for status 200 and false for any other
\* status, a network error or the abort, expiring 30 minutes later, and gives
\* that value to its callers; an entry stays as stored until it expires; and
\* a call for a URL whose entry has not expired returns the stored value
\* without a request.
C19_ProbeResultCached ==
    [][/\ \A p \in DOMAIN net \ DOMAIN net' :
             /\ net[p].url \in DOMAIN state'.iconStatusCache
             /\ state'.iconStatusCache[net[p].url]
                  = [value |-> IF net[p].outcome = "200"
                               THEN "true" ELSE "false",
                     expiresAt |-> now + 30 * 60 * 1000]
             /\ \A c \in DOMAIN callers :
                   (callers[c].st = "await" /\ callers[c].p = p)
                   => /\ callers'[c].st = "resumable"
                      /\ callers'[c].res = IF net[p].outcome = "200"
                                           THEN "true" ELSE "false"
       /\ \A url \in DOMAIN state.iconStatusCache :
             now' < state.iconStatusCache[url].expiresAt
             => /\ url \in DOMAIN state'.iconStatusCache
                /\ state'.iconStatusCache[url] = state.iconStatusCache[url]
       /\ \A c \in DOMAIN callers :
             (/\ Calls(c)
              /\ callers'[c].id \in DOMAIN state.iconStatusCache
              /\ now < state.iconStatusCache[callers'[c].id].expiresAt)
             => /\ callers'[c].st = "returned"
                /\ callers'[c].res
                     = state.iconStatusCache[callers'[c].id].value
                /\ net' = net]_vars

\* C19 witness: false was stored for a URL some time ago, has not expired,
\* and a call made since has returned false with no request pending; true is
\* stored for another URL.
C19_Witness ==
    \E c \in DOMAIN callers, url, other \in DOMAIN state.iconStatusCache :
        /\ state.iconStatusCache[url].value = False
        /\ state.iconStatusCache[url].expiresAt - iconCacheTimeToLive < now
        /\ now < state.iconStatusCache[url].expiresAt
        /\ callers[c].st = "returned"
        /\ callers[c].id = url
        /\ callers[c].res = False
        /\ net = << >>
        /\ state.iconStatusCache[other].value = True

\* C20: at most one HEAD request is pending for a URL, every caller waiting
\* for that URL waits for this request, callers resuming for the same URL
\* resume with the same boolean, and state.inFlightIconChecks registers the
\* pending requests and nothing else.
C20_OneProbePerUrl ==
    /\ \A p, q \in DOMAIN net : net[p].url = net[q].url => p = q
    /\ \A c \in DOMAIN callers :
          callers[c].st = "await"
          => /\ callers[c].p \in DOMAIN net
             /\ net[callers[c].p].url = callers[c].id
    /\ \A c, d \in DOMAIN callers :
          (/\ callers[c].st = "resumable"
           /\ callers[d].st = "resumable"
           /\ callers[c].id = callers[d].id)
          => callers[c].res = callers[d].res
    /\ DOMAIN state.inFlightIconChecks = {net[p].url : p \in DOMAIN net}
    /\ \A p \in DOMAIN net : state.inFlightIconChecks[net[p].url] = p

\* C20 witness: the three callers called for one URL while its probe was
\* pending, the probe has settled and is no longer registered, and the three
\* are about to resume with the same value.
C20_Witness ==
    /\ \A c \in DOMAIN callers :
          /\ callers[c].st = "resumable"
          /\ callers[c].id = "https://b/i.png"
          /\ callers[c].res = False
    /\ net = << >>
    /\ state.inFlightIconChecks = << >>

\* ====================================== further claims under SpecCache
\* C21: getCachedValue on an expired entry deletes that entry and reports
\* absent; on a live entry or a missing key it leaves the map unchanged; it
\* never changes another key, nor any cache of the program state.
C21_GetEvictsOnlyExpired ==
    [][\A key \in CacheKeys :
          CacheGet(key)
          => /\ IF key \in DOMAIN cache /\ now >= cache[key].expiresAt
                THEN /\ key \notin DOMAIN cache'
                     /\ lastGet'.value = Null
                ELSE cache' = cache
             /\ \A other \in CacheKeys \ {key} :
                   /\ other \in DOMAIN cache' <=> other \in DOMAIN cache
                   /\ other \in DOMAIN cache => cache'[other] = cache[other]
             /\ state' = state]_vars

\* C21 witness: a get has just evicted an expired entry while the entry of
\* the other key, set later, is still in the map.
C21_Witness ==
    /\ lastGet # NoGet
    /\ lastGet.at = now
    /\ lastGet.value = Null
    /\ lastGet.key \in DOMAIN stored
    /\ stored[lastGet.key].at + stored[lastGet.key].ttl <= now
    /\ lastGet.key \notin DOMAIN cache
    /\ \E other \in DOMAIN cache :
          /\ other # lastGet.key
          /\ cache[other].expiresAt > now

\* ================================================== claims under SpecTtl
\* The caches of the program state.
CacheFields ==
    {"pointsCache", "observationStationsCache", "latestObservationsCache",
     "forecastCache", "iconStatusCache", "failedRequestCache"}

\* The entries of cache field written by this step.
Written(field) ==
    {key \in DOMAIN state'[field] :
        key \notin DOMAIN state[field]
            \/ state'[field][key] # state[field][key]}

\* C22: every entry is stored with the TTL of its class: expiresAt minus the
\* time of the set is 10 minutes for points and station lists, 2 minutes for
\* latest observations, 5 minutes for forecasts, 30 minutes for icon status
\* and 30 seconds for failed-request markers.
C22_FixedTtlPerClass ==
    [][\A field \in CacheFields : \A key \in Written(field) :
          state'[field][key].expiresAt - now
            = CASE field = "pointsCache" -> 10 * 60 * 1000
                [] field = "observationStationsCache" -> 10 * 60 * 1000
                [] field = "latestObservationsCache" -> 2 * 60 * 1000
                [] field = "forecastCache" -> 5 * 60 * 1000
                [] field = "iconStatusCache" -> 30 * 60 * 1000
                [] field = "failedRequestCache" -> 30 * 1000]_vars

\* C22 witness: every cache holds an entry, and an entry stored after the
\* clock had moved.
C22_Witness ==
    /\ \A field \in CacheFields : DOMAIN state[field] # {}
    /\ now > 0
    /\ \E key \in DOMAIN state.latestObservationsCache :
          state.latestObservationsCache[key].expiresAt = now + 2 * 60 * 1000
    /\ \E key \in DOMAIN state.failedRequestCache :
          state.failedRequestCache[key].expiresAt = 30 * 1000
    /\ \E key \in DOMAIN state.iconStatusCache :
          state.iconStatusCache[key].value = False

\* ====================================== further claims under SpecProps
\* The object a merged feature hands to processProperties.
MergeInput(f) == spread(Sources(f)[1], Sources(f)[2], Sources(f)[3])

\* The scalar leaves of a nested object, each with the name derived from its
\* path (parent_child, parent_index) and whether it is a direct element of
\* an array that is the value of a property.
RECURSIVE EntryLeaves(_, _)
RECURSIVE ItemLeaves(_, _)
EntryLeaves(entries, prefix) ==
    UNION {LET name == IF prefix # ""
                       THEN prefix \o "_" \o entries[i].k
                       ELSE entries[i].k
               value == entries[i].v
           IN  CASE value.t = "array" -> ItemLeaves(value.items, name)
                 [] value.t = "object" -> EntryLeaves(value.entries, name)
                 [] OTHER -> {[name |-> name, value |-> value,
                               element |-> FALSE]} :
           i \in DOMAIN entries}

ItemLeaves(items, prefix) ==
    UNION {LET name == prefix \o "_" \o ToString(i - 1)
               item == items[i]
           IN  CASE item.t = "object" -> EntryLeaves(item.entries, name)
                 [] item.t = "array" ->
                        EntryLeaves(
                            [j \in DOMAIN item.items |->
                                Entry(ToString(j - 1), item.items[j])],
                            name)
                 [] OTHER -> {[name |-> name, value |-> item,
                               element |-> TRUE]} :
           i \in DOMAIN items}

Leaves(object) == EntryLeaves(object, "")

\* The string a leaf is to become: empty for null, its string form
\* otherwise.
Stringified(value) == IF value.t = "null" THEN "" ELSE String(value)

\* C23 (as claimed): processProperties maps every null leaf of its input,
\* object field or array element, to the empty string and every other scalar
\* leaf to its string form: each output value is that string of a leaf with
\* the output's name.
C23_NullLeavesEmpty ==
    (merge.kind = "published" /\ Merged(merge.feature))
    => \A name \in KeysOf(merge.properties) :
          \E leaf \in Leaves(MergeInput(merge.feature)) :
             /\ leaf.name = name
             /\ ValueOf(merge.properties, name)
                  = JsString(Stringified(leaf.value))

\* The string processProperties writes for a leaf.
WrittenString(leaf) ==
    IF leaf.value.t = "null" /\ ~leaf.element
    THEN ""
    ELSE String(leaf.value)

\* Each leaf is in the output under its derived name, and the output values
\* are the strings of the leaves.
Lossless(input, output) ==
    /\ \A leaf \in Leaves(input) :
          /\ leaf.name \in KeysOf(output)
          /\ ValueOf(output, leaf.name) = JsString(WrittenString(leaf))
    /\ {output[i].v : i \in DOMAIN output}
         = {JsString(WrittenString(leaf)) : leaf \in Leaves(input)}

\* C24 (as claimed): flattening loses no leaf: each leaf value of the input
\* is in the output under its own derived key, and the set of output values
\* is the set of stringified leaf values.
C24_NoLeafLost ==
    (merge.kind = "published" /\ Merged(merge.feature))
    => Lossless(MergeInput(merge.feature), merge.properties)

\* C24 (amended): flattening loses no leaf of an input in which no two
\* leaves derive the same key; the output then has one key per leaf.
C24_NoLeafLostApart ==
    (/\ merge.kind = "published"
     /\ Merged(merge.feature)
     /\ \A l1, l2 \in Leaves(MergeInput(merge.feature)) :
           l1.name = l2.name => l1 = l2)
    => /\ Lossless(MergeInput(merge.feature), merge.properties)
       /\ KeysOf(merge.properties)
            = {leaf.name : leaf \in Leaves(MergeInput(merge.feature))}
       /\ Len(merge.properties)
            = Cardinality(Leaves(MergeInput(merge.feature)))

\* C24 witness: an input with a nested object and an array that holds a
\* number, a nested array, an empty object and a null, flattened to one key
\* per leaf.
C24_Witness ==
    /\ merge.kind = "published"
    /\ merge.feature.original
         = Identified(<<Entry("t", JsObject(<<Entry("v", JsString("o"))>>))>>)
    /\ merge.feature.observation
         = Response(<<Entry("t_v",
                JsArray(<<JsNumber(5), JsArray(<<JsBoolean(TRUE)>>),
                          JsObject(<< >>), JsNull>>))>>)
    /\ merge.feature.forecast = NoResponse
    /\ merge.properties
         = <<Entry("stationIdentifier", JsString("S1")),
             Entry("t_v", JsString("o")),
             Entry("t_v_0", JsString("5")),
             Entry("t_v_1_0", JsString("true")),
             Entry("t_v_3", JsString("null"))>>

C26_UnregisteredBeforeResume ==
    \A c \in DOMAIN callers :
        (callers[c].st = "resumable" /\ callers[c].p # NoPromise)
        => TaskKey(callers[c]) \notin DOMAIN state.inFlightRequests

\* C26 witness: a call has settled with a response, two callers are about to
\* resume with it, neither has stored it yet, its key is unregistered and
\* the request of another key is still registered.
C26_Witness ==
    \E c, d \in DOMAIN callers :
        /\ c # d
        /\ callers[c].st = "resumable" /\ callers[d].st = "resumable"
        /\ callers[c].p # NoPromise /\ callers[d].p = callers[c].p
        /\ callers[c].res = "full" /\ callers[d].res = "full"
        /\ TaskKey(callers[c]) = CacheKey("points", "1,1")
        /\ state.pointsCache = << >>
        /\ DOMAIN state.inFlightRequests = {CacheKey("observations", "S1")}

\* ======================================== further claims under SpecRun
\* C27 (as claimed): when a call for a new key starts while an older call
\* for another key is still fetching, the older call's result does not stay
\* published: once both have published, the stations layer and the recorded
\* key are not those of the older call. (Calls take their index in the order
\* they start; an older call whose layer is the current one published last,
\* so the newer call started while it was fetching.)
C27_OlderRunNotPublishedLast ==
    \A r1, r2 \in DOMAIN runs :
        (/\ r1 < r2
         /\ runs[r1].outcome = "published"
         /\ runs[r2].outcome = "published"
         /\ runs[r1].key # runs[r2].key)
        => /\ state.observationStationsLayer # LayerOf(r1)
           /\ state.lastObservationStationsKey # runs[r1].key

\* ================================================ claims under SpecMain
\* The feature carries a forecast URL in its properties.
carriesForecastUrl(f) == truthy(f.forecast)

\* The functions of the given names the branch has called.
MainCalled(fns) ==
    {merge.calls[i] : i \in {j \in DOMAIN merge.calls :
                                 merge.calls[j].fn \in fns}}

\* C28: in the fan-out of src/src/main.ts, a feature that carries a forecast
\* URL gets its forecast through requestForecastByUrl for that URL, and no
\* points request is made for it (neither requestForecast nor requestPoints
\* is called, and no request for a points key is pending); a branch goes
\* through requestForecast(latitude, longitude) only for a feature without a
\* forecast URL and with finite coordinates. (A feature whose coordinates
\* cannot be destructured ends in the catch block of its branch before any
\* request.)
C28_ForecastUrlBypassesPoints ==
    (merge.kind = "main" /\ merge.pc # "new") =>
        /\ carriesForecastUrl(merge.feature) =>
              /\ MainCalled({"requestForecast", "requestPoints"}) = {}
              /\ \A p \in DOMAIN net : net[p][1] # "points"
              /\ \A key \in DOMAIN state.inFlightRequests :
                    key[1] # "points"
              /\ state.pointsCache = << >>
              /\ merge.pc # "caught" =>
                    /\ MainCalled({"requestForecastByUrl"}) =
                          {CallOf("requestForecastByUrl",
                                  merge.feature.forecast)}
                    /\ merge.fc.cls = "forecast"
                    /\ merge.fc.id = merge.feature.forecast
        /\ MainCalled({"requestForecast"}) # {} =>
              /\ ~carriesForecastUrl(merge.feature)
              /\ finiteCoordinates(merge.feature)

\* A feature with a forecast URL and finite coordinates has been merged with
\* the forecast requested by its URL.
C28_Witness ==
    /\ merge.kind = "main" /\ merge.pc = "merged"
    /\ carriesForecastUrl(merge.feature)
    /\ finiteCoordinates(merge.feature)
    /\ merge.feature.stationIdentifier = "S1"
    /\ merge.fc.cls = "forecast" /\ merge.fc.res = "full"
    /\ merge.obs.res = "full"
    /\ CacheKey("forecast", merge.feature.forecast)
           \in DOMAIN state.forecastCache

\* ======================================= claims under SpecRun: the skip
\* The feature has no stationIdentifier.
Unidentified(f) == f.stationIdentifier = Null

\* The feature goes through its requests: it has an identifier and its
\* coordinates can be destructured.
Processed(f) == ~Unidentified(f) /\ f.geometry # "malformed"

\* The cache keys a branch for feature f may request.
BranchKeys(f) ==
    IF Processed(f)
    THEN {CacheKey("observations", f.stationIdentifier)}
         \cup (IF f.geometry = "point"
               THEN {CacheKey("points",
                              CoordinateKey(f.latitude, f.longitude)),
                     CacheKey("forecast",
                              ForecastUrlOf(
                                  CoordinateKey(f.latitude, f.longitude)))}
               ELSE {})
    ELSE {}

\* C29: within a fan-out, the branch of a feature with no stationIdentifier
\* runs no observation and no forecast request function and leaves the
\* feature's properties as cloned, while every feature that has an
\* identifier (and destructurable coordinates) goes through its own
\* requests and is merged; the requests a fan-out step issues are those of
\* the identified features only; and the serialized collection holds the
\* skipped feature unchanged next to the merged ones.
C29_UnidentifiedFeatureSkipped ==
    /\ [](\A r \in DOMAIN runs : \A i \in DOMAIN runs[r].feats :
            LET b == runs[r].feats[i]
            IN /\ Unidentified(b.f) =>
                    /\ b.pc # "wait"
                    /\ b.obs = ReturnedNull
                    /\ b.fc = ReturnedNull
                    /\ b.props = OriginalProps
               /\ Processed(b.f) =>
                    /\ b.pc \in {"wait", "done"}
                    /\ b.obs.cls = "observations"
                    /\ b.obs.id = b.f.stationIdentifier
                    /\ b.pc = "done" => b.props.merged)
    /\ [][\A r \in DOMAIN runs :
            /\ (/\ runs'[r].pc = "fanout"
                /\ runs[r].pc \in {"stations", "fanout"}
                /\ runs'[r] # runs[r])
               => \A p \in DOMAIN net' \ DOMAIN net :
                     \E i \in DOMAIN runs'[r].feats :
                        net'[p] \in BranchKeys(runs'[r].feats[i].f)
            /\ (BlobUrlOf(r) \in DOMAIN blobUrls'
                  /\ BlobUrlOf(r) \notin DOMAIN blobUrls)
               => \A i \in DOMAIN runs[r].feats :
                     LET f == runs[r].feats[i].f
                         out == blobUrls'[BlobUrlOf(r)][i]
                     IN /\ Unidentified(f) => out.props = OriginalProps
                        /\ Processed(f) => out.props.merged]_vars

\* C29 witness: a call has serialized a station list of four features whose
\* fourth has no stationIdentifier and is unchanged, while the first was
\* merged with its observation and its forecast and the second with its
\* observation.
C29_Witness ==
    \E r \in DOMAIN runs :
        /\ runs[r].pc \in {"renderer", "icons"}
        /\ BlobUrlOf(r) \in DOMAIN blobUrls
        /\ Len(blobUrls[BlobUrlOf(r)]) = 4
        /\ blobUrls[BlobUrlOf(r)][4].stationIdentifier = Null
        /\ blobUrls[BlobUrlOf(r)][4].props = OriginalProps
        /\ blobUrls[BlobUrlOf(r)][1].props =
              [merged |-> TRUE, observation |-> "S1",
               forecast |-> ForecastUrlOf(CoordinateKey(213, 431))]
        /\ blobUrls[BlobUrlOf(r)][2].props.observation = "S2"

\* ============================================== claims under SpecErrors
\* One of the four status members of the error equals 404.
SomeStatusIs404(error) ==
    \E member \in {error.detailsHttpStatus, error.responseStatus,
                   error.status, error.httpStatus} :
        Number(member) = {404}

\* C30 (as claimed): isNotFoundError(error) is true exactly when one of
\* error.details.httpStatus, error.response.status, error.status and
\* error.httpStatus equals 404 or the error message contains the token 404.
C30_TrueIffAnyStatusOrMessage404 ==
    merge.kind = "classified" =>
        (merge.result <=>
            \/ SomeStatusIs404(merge.error)
            \/ matches404(String(nullish(merge.error.message, JsString("")))))

\* ================================================ claims under SpecHeap
\* C31: no step of a run of the orchestrator or of the click forecast flow
\* changes an object a cache holds: the cached station list, its features
\* and their properties, the cached observation and the cached forecast are
\* at every moment what they were when they were stored.
C31_CachedObjectsUnchanged ==
    merge.kind = "heap" =>
        \A a \in DOMAIN merge.cached : merge.heap[a] = merge.cached[a]

\* C31 witness: the run and the click flow are over, the clone's first
\* feature carries the flattened merge (which differs from the cached
\* properties) and the forecast clone its flattened properties.
C31_Witness ==
    /\ merge.kind = "heap"
    /\ merge.run = "done" /\ merge.click = "done"
    /\ LET a == merge.heap[merge.clone].features[1]
       IN /\ a \notin DOMAIN merge.cached
          /\ propertiesAt(merge.heap, a) # merge.cached[1].entries
          /\ Len(propertiesAt(merge.heap, a)) = 3
    /\ merge.forecastClone \notin DOMAIN merge.cached
    /\ propertiesAt(merge.heap, merge.forecastClone)
          # propertiesAt(merge.heap, ForecastAddress)

CachedLive(key) ==
    /\ key \in DOMAIN state[CacheOf(key[1])]
    /\ now < state[CacheOf(key[1])][key].expiresAt

\* The request for key has succeeded and a caller that awaited it has its
\* continuation queued: the registration is gone, the cache write is due.
SucceededUncached(key) ==
    \E c \in DOMAIN callers :
        /\ callers[c].st = "resumable"
        /\ callers[c].p # NoPromise
        /\ callers[c].res \in Responses
        /\ TaskKey(callers[c]) = key

\* C33: after a request for a data key has succeeded, no second request for
\* the key is issued before its cache entry expires: a request is issued
\* only for a key without a live cache entry and without a caller that still
\* has to write the response it was handed, and that caller's continuation
\* leaves a live entry for the key.
C33_NoSecondRequestWhileCached ==
    /\ [][\A p \in (DOMAIN net') \ (DOMAIN net) :
             /\ ~CachedLive(net'[p])
             /\ ~SucceededUncached(net'[p])]_vars
    /\ [][\A c \in DOMAIN callers :
             (/\ callers[c].st = "resumable"
              /\ callers[c].res \in Responses
              /\ callers'[c].st = "returned")
             => CachedLive(TaskKey(callers[c]))']_vars

\* C33 witness: a caller was answered from an entry written before the
\* clock moved, while no request for its key is pending.
C33_Witness ==
    \E c \in DOMAIN callers :
        LET key == TaskKey(callers[c])
        IN /\ callers[c].st = "returned"
           /\ callers[c].res \in Responses
           /\ CachedLive(key)
           /\ state[CacheOf(key[1])][key].expiresAt < now + TtlOf(key[1])
           /\ key \notin PendingKeys
           /\ key \notin DOMAIN state.inFlightRequests

\* ========================================= claims under SpecRun: the swap
\* C34 (as claimed): the blob URL that backs a stations layer on the map has
\* not been revoked.
C34_MapLayerUrlLive ==
    \A r \in DOMAIN runs :
        LayerOf(r) \in mapLayers => BlobUrlOf(r) \in DOMAIN blobUrls

\* ================================================ claims under SpecClick
\* The forecast layers on the map.
ForecastLayersOnMap == {ForecastLayerOf(r) : r \in DOMAIN runs} \cap mapLayers

\* C35 (as claimed): at most one forecast layer is on the map, and it is the
\* one state.forecastLayer references.
C35_OneForecastLayer ==
    ForecastLayersOnMap \subseteq {state.forecastLayer}

\* ============================= claims under SpecRun: the published layer
\* The observation-stations layers on the map.
StationsLayersOnMap == {LayerOf(r) : r \in DOMAIN runs} \cap mapLayers

\* C36: at most one observation-stations layer is on the map, and it is the
\* one state.observationStationsLayer references.
C36_OneStationsLayer ==
    StationsLayersOnMap \subseteq {state.observationStationsLayer}

\* C36 witness: two calls for different keys have both published, and the map
\* holds the layer of one of them only.
C36_Witness ==
    \E r, q \in DOMAIN runs :
        /\ r # q
        /\ runs[r].outcome = "published"
        /\ runs[q].outcome = "published"
        /\ runs[r].key # runs[q].key
        /\ mapLayers = {LayerOf(q)}
        /\ state.observationStationsLayer = LayerOf(q)
        /\ state.inFlightObservationStationsKey = ""
        /\ state.lastObservationStationsKey = runs[q].key
        /\ lastEventKey = runs[r].key


\* Call r completes in this step.
Finishes(r) == runs[r].pc \notin {"idle", "done"} /\ runs'[r].pc = "done"

\* C37: whenever no call of createObservationStationsLayer is in progress,
\* state.inFlightObservationStationsKey is empty; a call that completes
\* clears the in-flight key if it equals the call's own key and leaves it as
\* it is otherwise.
C37_InFlightKeyClearedByOwner ==
    /\ [](RunsInProgress = {} => state.inFlightObservationStationsKey = "")
    /\ [][\A r \in DOMAIN runs :
             Finishes(r) =>
                state'.inFlightObservationStationsKey =
                    IF state.inFlightObservationStationsKey = runs[r].key
                    THEN ""
                    ELSE state.inFlightObservationStationsKey]_vars

\* C37 witness: a call completed after a later call for another key had
\* started (it built its blob after the later call built its own), and the
\* in-flight key is still that of the later call.
C37_Witness ==
    \E r, q \in DOMAIN runs :
        /\ r < q
        /\ runs[r].pc = "done"
        /\ runs[r].outcome = "published"
        /\ runs[q].pc = "renderer"
        /\ runs[r].key # runs[q].key
        /\ DOMAIN blobUrls = {BlobUrlOf(r)}
        /\ state.inFlightObservationStationsKey = runs[q].key


\* C38: the points, stations, observations and forecast caches never hold an
\* absent value: every entry is a response, and a key recorded as failed has
\* no entry in its data cache.
C38_CachesHoldResponses ==
    \A cls \in Classes :
        /\ \A k \in DOMAIN state[CacheOf(cls)] :
              state[CacheOf(cls)][k].value # Null
        /\ \A k \in DOMAIN state.failedRequestCache :
              k[1] = cls => k \notin DOMAIN state[CacheOf(cls)]

\* C38 witness: the forecast request of a station failed while its
\* observations arrived: the forecast is recorded as failed and not cached,
\* the other three caches hold responses.
C38_Witness ==
    /\ \E k \in DOMAIN state.failedRequestCache :
          /\ k[1] = "forecast"
          /\ state.forecastCache = << >>
    /\ state.pointsCache # << >>
    /\ state.observationStationsCache # << >>
    /\ state.latestObservationsCache # << >>
    /\ net = << >>


====
